---- MODULE Spec2Model ----
(***************************************************************************)
(* A model of the per-session Pipeline of the realtime-switch gateway:     *)
(* SessionManager (config store), client/server translators, the provider  *)
(* connection, the checkpointer, the PingSwitch and the Pipeline that      *)
(* wires and swaps them.                                                   *)
(*                                                                         *)
(* Conventions.  A JavaScript string that the code concatenates is a       *)
(* sequence of characters (one-character strings, or a whole token where   *)
(* the code only copies it).  An optional reference (T | null) is a        *)
(* sequence of length 0 or 1.  A JSON object is a record / a function with *)
(* a string domain; "k \in DOMAIN p" is the test "p.k !== undefined".      *)
(***************************************************************************)
EXTENDS Integers, Sequences, FiniteSets, TLC

(***************************************************************************)
(* Bounds of the model                                                     *)
(***************************************************************************)
MaxEvents == 3
MaxLiveEvents == 2
MaxReplayEvents == 2
MaxUpstreamEvents == 2
MaxSockets == 2
MaxSamples == 6
MaxMergeEvents == 3
MaxOrderEvents == 3
MaxAppends == 2
MaxCheckpointEvents == 2
MaxResumeEvents == 3
MaxEnrichEvents == 3
MaxTrips == 2
MaxCleanups == 3
MaxCleanupEvents == 2
MaxSubscribers == 3
MaxEmits == 2
MaxPersistEvents == 3
MaxFailures == 2
MaxReconnectSockets == 12
MaxReconnectOpens == 2
MaxSwapSockets == 3
MaxRequests == 2
MaxIPCSockets == 3
MaxIPCTimers == 2

(***************************************************************************)
(* Program constants                                                       *)
(***************************************************************************)
LATENCY_THRESHOLD_MS == 500
DEFAULT_CONSECUTIVE_FAILURES == 3
maxReconnectAttempts == 10
BUFFER_SIZE_LIMIT == 200

OPENAI == "OPENAI"
GEMINI == "GEMINI"
Providers == {OPENAI, GEMINI}

None == <<>>
Some(x) == <<x>>
IsSome(o) == Len(o) = 1
Get(o) == o[1]

Has(p, k) == k \in DOMAIN p

(***************************************************************************)
(* JSON.stringify / JSON.parse of a JSON value: the text is kept as the    *)
(* value it denotes, wrapped so that text and value are never confused.    *)
(***************************************************************************)
JSONstringify(v) == [json |-> v]
JSONparse(s) == s.json
(* a text JSON.parse accepts; any other text, [text |-> ...], makes it throw *)
IsJSONText(s) == Has(s, "json")

(***************************************************************************)
(* Event payloads of the two wire styles                                   *)
(***************************************************************************)
OAIToolDef == [type |-> "function", name |-> "f", description |-> "d",
               parameters |-> [type |-> "object",
                               properties |-> [x |-> [type |-> "string"]]]]
GeminiToolDef == [functionDeclarations |->
                    << [name |-> "f", description |-> "d",
                        parameters |-> [type |-> "OBJECT",
                                        properties |-> [x |-> [type |-> "STRING"]]]] >>]

OAIAudioAppend == [type |-> "input_audio_buffer.append", audio |-> "pcm"]
OAISessionUpdate(s) == [type |-> "session.update", session |-> s]
OAIFunctionCallOutput ==
  [type |-> "conversation.item.create",
   item |-> [type |-> "function_call_output", call_id |-> "c1",
             output |-> JSONstringify([ok |-> "r"])]]
OAIResponseCreate == [type |-> "response.create"]

GeminiRealtimeInput ==
  [realtimeInput |-> [audio |-> [data |-> "pcm", mimeType |-> "audio/pcm;rate=16000"]]]
GeminiSetup(s) == [setup |-> s]
GeminiToolResponse ==
  [toolResponse |-> [functionResponses |->
      << [id |-> "c1", name |-> "f", response |-> [ok |-> "r"]] >>]]
GeminiToolResponses ==
  [toolResponse |-> [functionResponses |->
      << [id |-> "c1", name |-> "f", response |-> [ok |-> "r"]],
         [id |-> "c2", name |-> "f", response |-> [ok |-> "s"]] >>]]
GeminiClientContent == [clientContent |-> [turnComplete |-> TRUE]]

(***************************************************************************)
(* Client extractors: which callback extract() dispatches to, given that   *)
(* the callbacks are registered.                                           *)
(***************************************************************************)
OAIClientExtract(p) ==
  IF Has(p, "type") /\ p.type = "input_audio_buffer.append" THEN "userAudio"
  ELSE IF Has(p, "type") /\ p.type = "session.update" THEN "sessionUpdate"
  ELSE IF /\ Has(p, "type") /\ p.type = "conversation.item.create"
          /\ Has(p, "item") /\ Has(p.item, "type")
          /\ p.item.type = "function_call_output" THEN "toolResponse"
  ELSE "none"

GeminiClientExtract(p) ==
  IF Has(p, "realtimeInput") THEN "userAudio"
  ELSE IF Has(p, "setup") THEN "sessionUpdate"
  ELSE IF Has(p, "toolResponse") THEN "toolResponse"
  ELSE "none"

ClientExtract(style, p) ==
  IF style = OPENAI THEN OAIClientExtract(p) ELSE GeminiClientExtract(p)

(***************************************************************************)
(* Tool-schema translation                                                 *)
(***************************************************************************)
toUpperCase(s) ==
  CASE s = "object" -> "OBJECT" [] s = "string" -> "STRING" [] OTHER -> s
toLowerCase(s) ==
  CASE s = "OBJECT" -> "object" [] s = "STRING" -> "string" [] OTHER -> s

IsObjectKey(k) == k \in {"properties", "x"}

RECURSIVE convertTypesToUppercase(_)
convertTypesToUppercase(obj) ==
  [k \in DOMAIN obj |->
     IF k = "type" THEN toUpperCase(obj[k])
     ELSE IF IsObjectKey(k) THEN convertTypesToUppercase(obj[k])
     ELSE obj[k]]

RECURSIVE convertTypesToLowercase(_)
convertTypesToLowercase(obj) ==
  [k \in DOMAIN obj |->
     IF k = "type" THEN toLowerCase(obj[k])
     ELSE IF IsObjectKey(k) THEN convertTypesToLowercase(obj[k])
     ELSE obj[k]]

transformOAIToolsToGemini(oaiTools) ==
  IF Len(oaiTools) = 0 THEN <<>>
  ELSE << [functionDeclarations |->
             [i \in 1..Len(oaiTools) |->
                [name |-> oaiTools[i].name,
                 description |-> oaiTools[i].description,
                 parameters |-> convertTypesToUppercase(oaiTools[i].parameters)]]] >>

RECURSIVE Flatten(_)
Flatten(ss) == IF Len(ss) = 0 THEN <<>> ELSE Head(ss) \o Flatten(Tail(ss))

transformGeminiToolsToOAI(geminiTools) ==
  Flatten([g \in 1..Len(geminiTools) |->
     IF Has(geminiTools[g], "functionDeclarations")
     THEN [i \in 1..Len(geminiTools[g].functionDeclarations) |->
             [type |-> "function",
              name |-> geminiTools[g].functionDeclarations[i].name,
              description |-> geminiTools[g].functionDeclarations[i].description,
              parameters |-> convertTypesToLowercase(
                               geminiTools[g].functionDeclarations[i].parameters)]]
     ELSE <<>>])

(***************************************************************************)
(* Client translators.  Each returns the sequence of events the callback   *)
(* emits, in emission order.                                               *)
(***************************************************************************)
Truthy(seq) == Len(seq) > 0

NoOpClientTransformer(style, ev) ==
  IF ClientExtract(style, ev.payload) = "none" THEN <<>> ELSE <<ev>>

ClientOAIGemini_userAudio(ev) ==
  << [src |-> GEMINI,
      payload |-> [realtimeInput |->
                     [audio |-> [data |-> ev.payload.audio,
                                 mimeType |-> "audio/pcm;rate=24000"]]]] >>

ClientOAIGemini_sessionUpdate(ev) ==
  LET hasSession == Has(ev.payload, "session")
      instructions == IF hasSession /\ Has(ev.payload.session, "instructions")
                      THEN ev.payload.session.instructions ELSE <<>>
      geminiTools == IF hasSession /\ Has(ev.payload.session, "tools")
                     THEN transformOAIToolsToGemini(ev.payload.session.tools)
                     ELSE <<>>
      base == [model |-> "models/gemini-2.0-flash-live-001",
               generationConfig |-> [responseModalities |-> <<"AUDIO">>],
               outputAudioTranscription |-> TRUE,
               inputAudioTranscription |-> TRUE,
               systemInstruction |-> [parts |-> << [text |-> instructions] >>]]
      setupPayload == IF Len(geminiTools) > 0
                      THEN [k \in DOMAIN base \cup {"tools"} |->
                              IF k = "tools" THEN geminiTools ELSE base[k]]
                      ELSE base
  IN  << [src |-> GEMINI, payload |-> [setup |-> setupPayload]] >>

ClientOAIGemini_toolResponse(ev) ==
  LET item == ev.payload.item
      response == IF Has(item, "output") /\ IsJSONText(item.output)
                  THEN JSONparse(item.output) ELSE <<>>
  IN  << [src |-> GEMINI,
          payload |-> [toolResponse |-> [functionResponses |->
                         << [id |-> item.call_id, name |-> "", response |-> response] >>]]] >>

ClientOAIGeminiTransformer(ev) ==
  LET kind == OAIClientExtract(ev.payload)
  IN  CASE kind = "userAudio" -> ClientOAIGemini_userAudio(ev)
        [] kind = "sessionUpdate" -> ClientOAIGemini_sessionUpdate(ev)
        [] kind = "toolResponse" -> ClientOAIGemini_toolResponse(ev)
        [] OTHER -> <<>>

RECURSIVE JoinSpace(_)
JoinSpace(texts) ==
  IF Len(texts) = 0 THEN <<>>
  ELSE IF Len(texts) = 1 THEN texts[1]
  ELSE texts[1] \o <<" ">> \o JoinSpace(Tail(texts))

HasText(part) == Has(part, "text") /\ Truthy(part.text)
PartText(part) == part.text

(* a variant that emits the buffer commit instead of the append *)
ClientGeminiOAI_userAudio_commit(ev) ==
  IF /\ Has(ev.payload, "realtimeInput") /\ Has(ev.payload.realtimeInput, "audio")
     /\ Has(ev.payload.realtimeInput.audio, "data")
  THEN << [src |-> OPENAI,
           payload |-> [type |-> "input_audio_buffer.commit",
                        audio |-> ev.payload.realtimeInput.audio.data]] >>
  ELSE <<>>

ClientGeminiOAI_userAudio(ev) ==
  IF /\ Has(ev.payload, "realtimeInput") /\ Has(ev.payload.realtimeInput, "audio")
     /\ Has(ev.payload.realtimeInput.audio, "data")
     /\ ev.payload.realtimeInput.audio.data # ""
  THEN << [src |-> OPENAI,
           payload |-> [type |-> "input_audio_buffer.append",
                        audio |-> ev.payload.realtimeInput.audio.data]] >>
  ELSE IF /\ Has(ev.payload, "audio") /\ Has(ev.payload.audio, "data")
          /\ ev.payload.audio.data # ""
  THEN << [src |-> OPENAI,
           payload |-> [type |-> "input_audio_buffer.append",
                        audio |-> ev.payload.audio.data]] >>
  ELSE <<>>

ClientGeminiOAI_sessionUpdate(ev) ==
  LET geminiSetup == ev.payload.setup
      parts == IF Has(geminiSetup, "systemInstruction")
                  /\ Has(geminiSetup.systemInstruction, "parts")
               THEN geminiSetup.systemInstruction.parts ELSE <<>>
      texts == SelectSeq(parts, HasText)
      instructions == JoinSpace([i \in 1..Len(texts) |-> PartText(texts[i])])
      oaiTools == IF Has(geminiSetup, "tools")
                  THEN transformGeminiToolsToOAI(geminiSetup.tools) ELSE <<>>
      base == [modalities |-> <<"text", "audio">>,
               turn_detection |-> [type |-> "server_vad", silence_duration_ms |-> 700],
               voice |-> "ash",
               input_audio_transcription |-> [model |-> "whisper-1"],
               input_audio_format |-> "pcm16",
               output_audio_format |-> "pcm16",
               instructions |-> instructions]
      sessionPayload == IF Len(oaiTools) > 0
                        THEN [k \in DOMAIN base \cup {"tools"} |->
                                IF k = "tools" THEN oaiTools ELSE base[k]]
                        ELSE base
  IN  << [src |-> OPENAI,
          payload |-> [type |-> "session.update", session |-> sessionPayload]] >>

(* a variant that triggers the response before the function outputs *)
ClientGeminiOAI_toolResponse_createFirst(ev) ==
  IF ~Has(ev.payload.toolResponse, "functionResponses") THEN <<>>
  ELSE LET frs == ev.payload.toolResponse.functionResponses
       IN  << [src |-> OPENAI, payload |-> [type |-> "response.create"]] >>
           \o [i \in 1..Len(frs) |->
                 [src |-> OPENAI,
                  payload |-> [type |-> "conversation.item.create",
                               item |-> [type |-> "function_call_output",
                                         call_id |-> frs[i].id,
                                         output |-> JSONstringify(frs[i].response)]]]]

ClientGeminiOAI_toolResponse(ev) ==
  IF ~Has(ev.payload.toolResponse, "functionResponses") THEN <<>>
  ELSE LET frs == ev.payload.toolResponse.functionResponses
       IN  [i \in 1..Len(frs) |->
              [src |-> OPENAI,
               payload |-> [type |-> "conversation.item.create",
                            item |-> [type |-> "function_call_output",
                                      call_id |-> frs[i].id,
                                      output |-> JSONstringify(frs[i].response)]]]]
           \o << [src |-> OPENAI, payload |-> [type |-> "response.create"]] >>

ClientGeminiOAITransformer(ev) ==
  LET kind == GeminiClientExtract(ev.payload)
  IN  CASE kind = "userAudio" -> ClientGeminiOAI_userAudio(ev)
        [] kind = "sessionUpdate" -> ClientGeminiOAI_sessionUpdate(ev)
        [] kind = "toolResponse" -> ClientGeminiOAI_toolResponse(ev)
        [] OTHER -> <<>>

(* ClientTransformerRegistry.getTransformer(apiStyle, provider), applied to ev *)
ClientTransform(style, prov, ev) ==
  IF style = prov THEN NoOpClientTransformer(style, ev)
  ELSE IF style = OPENAI THEN ClientOAIGeminiTransformer(ev)
  ELSE ClientGeminiOAITransformer(ev)

(***************************************************************************)
(* Server extractors and translators                                       *)
(***************************************************************************)
OAIServerExtract(p) ==
  IF ~Has(p, "type") THEN "none"
  ELSE CASE p.type = "conversation.item.input_audio_transcription.delta" -> "userTranscript"
         [] p.type = "response.audio_transcript.delta" -> "responseTranscript"
         [] p.type = "response.audio.delta" -> "responseAudio"
         [] p.type = "response.output_item.done" ->
              IF Has(p, "item") /\ Has(p.item, "type") /\ p.item.type = "function_call"
              THEN "toolCall" ELSE "none"
         [] p.type = "response.done" -> "turn"
         [] OTHER -> "none"

GeminiServerExtract(p) ==
  IF Has(p, "setupComplete") THEN "none"
  ELSE IF Has(p, "serverContent") /\ Has(p.serverContent, "inputTranscription")
       THEN "userTranscript"
  ELSE IF Has(p, "serverContent") /\ Has(p.serverContent, "modelTurn")
       THEN "responseAudio"
  ELSE IF Has(p, "serverContent") /\ Has(p.serverContent, "outputTranscription")
       THEN "responseTranscript"
  ELSE IF /\ Has(p, "serverContent")
          /\ \/ Has(p.serverContent, "generationComplete")
             \/ Has(p.serverContent, "interrupted")
       THEN "turn"
  ELSE IF Has(p, "serverContent") /\ Has(p.serverContent, "turnComplete") THEN "none"
  ELSE IF Has(p, "toolCall") THEN "toolCall"
  ELSE "none"

ServerExtract(style, p) ==
  IF style = OPENAI THEN OAIServerExtract(p) ELSE GeminiServerExtract(p)

(* ServerGeminiOAITransformer: a Gemini event reshaped as OpenAI events *)
ServerGeminiOAITransformer(ev) ==
  LET p == ev.payload
      kind == GeminiServerExtract(p)
  IN  CASE kind = "userTranscript" ->
             IF Has(p.serverContent.inputTranscription, "text")
                /\ Truthy(p.serverContent.inputTranscription.text)
             THEN << [src |-> OPENAI,
                      payload |-> [type |-> "conversation.item.input_audio_transcription.delta",
                                   content_index |-> 0,
                                   delta |-> p.serverContent.inputTranscription.text]] >>
             ELSE <<>>
        [] kind = "responseTranscript" ->
             IF Has(p.serverContent.outputTranscription, "text")
                /\ Truthy(p.serverContent.outputTranscription.text)
             THEN << [src |-> OPENAI,
                      payload |-> [type |-> "response.audio_transcript.delta",
                                   output_index |-> 0, content_index |-> 0,
                                   delta |-> p.serverContent.outputTranscription.text]] >>
             ELSE <<>>
        [] kind = "responseAudio" ->
             IF ~Has(p.serverContent.modelTurn, "parts") THEN <<>>
             ELSE LET parts == SelectSeq(p.serverContent.modelTurn.parts,
                                 LAMBDA part : /\ Has(part, "inlineData")
                                               /\ Has(part.inlineData, "data")
                                               /\ Truthy(part.inlineData.data))
                  IN  [i \in 1..Len(parts) |->
                         [src |-> OPENAI,
                          payload |-> [type |-> "response.audio.delta",
                                       output_index |-> 0, content_index |-> 0,
                                       delta |-> parts[i].inlineData.data]]]
        [] kind = "toolCall" ->
             IF ~Has(p.toolCall, "functionCalls") THEN <<>>
             ELSE LET fcs == p.toolCall.functionCalls
                  IN  [i \in 1..Len(fcs) |->
                         [src |-> OPENAI,
                          payload |-> [type |-> "response.output_item.done",
                                       output_index |-> 0,
                                       item |-> [id |-> <<"item_", fcs[i].id>>,
                                                 object |-> "realtime.item",
                                                 type |-> "function_call",
                                                 status |-> "completed",
                                                 name |-> fcs[i].name,
                                                 call_id |-> fcs[i].id,
                                                 arguments |-> JSONstringify(
                                                   IF Has(fcs[i], "args") THEN fcs[i].args
                                                   ELSE <<>>)]]]]
        [] kind = "turn" ->
             LET isInterrupted == Has(p.serverContent, "interrupted")
             IN  << [src |-> OPENAI,
                     payload |-> [type |-> "response.done",
                                  response |-> [object |-> "realtime.response",
                                                status |-> IF isInterrupted THEN "cancelled"
                                                           ELSE "completed"]]] >>
        [] OTHER -> <<>>

(* ServerOAIGeminiTransformer: an OpenAI event reshaped as Gemini events.  *)
(* userConvId is the translator's field, an optional item id.              *)
ServerOAIGemini_userConvId(userConvId, ev) ==
  LET p == ev.payload
  IN  IF /\ Has(p, "type") /\ p.type = "conversation.item.created"
         /\ Has(p, "item") /\ Has(p.item, "role") /\ p.item.role = "user"
      THEN Some(p.item.id) ELSE userConvId

ServerOAIGeminiTransformer(userConvId0, ev) ==
  LET p == ev.payload
      kind == OAIServerExtract(p)
      userConvId == ServerOAIGemini_userConvId(userConvId0, ev)
  IN  CASE kind = "userTranscript" ->
             IF Has(p, "delta") /\ Truthy(p.delta)
             THEN << [src |-> GEMINI,
                      payload |-> [serverContent |->
                         [inputTranscription |-> [text |-> p.delta],
                          convId |-> IF Has(p, "item_id") THEN Some(p.item_id)
                                     ELSE userConvId]]] >>
             ELSE <<>>
        [] kind = "responseTranscript" ->
             IF Has(p, "delta") /\ Truthy(p.delta)
             THEN << [src |-> GEMINI,
                      payload |-> [serverContent |->
                         [outputTranscription |-> [text |-> p.delta]]]] >>
             ELSE <<>>
        [] kind = "responseAudio" ->
             IF Has(p, "delta") /\ Truthy(p.delta)
             THEN << [src |-> GEMINI,
                      payload |-> [serverContent |->
                         [modelTurn |-> [parts |-> << [inlineData |-> [data |-> p.delta]] >>]]]] >>
             ELSE <<>>
        [] kind = "toolCall" ->
             IF Has(p.item, "arguments") /\ ~IsJSONText(p.item.arguments) THEN <<>>
             ELSE << [src |-> GEMINI,
                      payload |-> [toolCall |-> [functionCalls |->
                         << [id |-> p.item.call_id, name |-> p.item.name,
                             args |-> IF Has(p.item, "arguments")
                                      THEN JSONparse(p.item.arguments) ELSE <<>>] >>]]] >>
        [] kind = "turn" ->
             LET isInterrupted == /\ Has(p, "response") /\ Has(p.response, "status")
                                  /\ p.response.status = "cancelled"
             IN  << [src |-> GEMINI,
                     payload |-> [serverContent |->
                        IF isInterrupted THEN [interrupted |-> TRUE]
                        ELSE [generationComplete |-> TRUE]]],
                    [src |-> GEMINI,
                     payload |-> [serverContent |->
                        [turnComplete |-> TRUE, prevConvId |-> userConvId]]] >>
        [] OTHER -> <<>>

(* a variant whose translated events keep the src of the event they came   *)
(* from                                                                    *)
ServerTransform_keepsSrc(prov, style, userConvId, ev) ==
  LET outs == IF prov = style THEN <<ev>>
              ELSE IF prov = GEMINI THEN ServerGeminiOAITransformer(ev)
              ELSE ServerOAIGeminiTransformer(userConvId, ev)
  IN  [i \in 1..Len(outs) |-> [outs[i] EXCEPT !.src = ev.src]]

(* ServerTransformerRegistry.getTransformer(provider, apiStyle), applied to ev *)
ServerTransform(prov, style, userConvId, ev) ==
  IF prov = style THEN <<ev>>
  ELSE IF prov = GEMINI THEN ServerGeminiOAITransformer(ev)
  ELSE ServerOAIGeminiTransformer(userConvId, ev)

ServerTransformUserConvId(prov, style, userConvId, ev) ==
  IF prov = OPENAI /\ style = GEMINI THEN ServerOAIGemini_userConvId(userConvId, ev)
  ELSE userConvId

(***************************************************************************)
(* SessionManager: merge and replay enrichment                             *)
(***************************************************************************)
SessionOf(payload) == IF Has(payload, "session") THEN payload.session ELSE <<>>

(* a variant with the spread order reversed: { ...b, ...a } *)
MergeMaps_keepEarlier(a, b) ==
  [k \in DOMAIN a \cup DOMAIN b |-> IF k \in DOMAIN a THEN a[k] ELSE b[k]]

(* { ...a, ...b } *)
MergeMaps(a, b) ==
  [k \in DOMAIN a \cup DOMAIN b |-> IF k \in DOMAIN b THEN b[k] ELSE a[k]]

mergeSessionConfiguration(cfg, event) ==
  IF ~IsSome(cfg) THEN Some(event)
  ELSE LET old == Get(cfg)
           mergedSession == MergeMaps(SessionOf(old.payload), SessionOf(event.payload))
       IN  Some([src |-> old.src,
                 payload |-> [k \in DOMAIN event.payload \cup {"session"} |->
                                IF k = "session" THEN mergedSession
                                ELSE event.payload[k]]])

ContextPrompt(history) ==
  <<"\n\nHere is the previous conversation that happened which should be continued now:\n">>
    \o history

IsSpace(c) == c \in {" ", "\n"}

RECURSIVE TrimLeft(_)
TrimLeft(t) == IF Len(t) > 0 /\ IsSpace(Head(t)) THEN TrimLeft(Tail(t)) ELSE t

RECURSIVE TrimRight(_)
TrimRight(t) ==
  IF Len(t) > 0 /\ IsSpace(t[Len(t)]) THEN TrimRight(SubSeq(t, 1, Len(t) - 1)) ELSE t

trim(t) == TrimRight(TrimLeft(t))

(* BaseCheckpoint.loadConversationHistory on the content read (optional text) *)
loadConversationHistory(content) ==
  IF IsSome(content) /\ Truthy(Get(content)) THEN Some(trim(Get(content))) ELSE None

EnrichOAI(cfg, prompt) ==
  IF Has(cfg.payload, "session")
  THEN LET sess == cfg.payload.session
           instr == IF Has(sess, "instructions") THEN sess.instructions ELSE <<>>
       IN  [cfg EXCEPT !.payload.session =
              [k \in DOMAIN sess \cup {"instructions"} |->
                 IF k = "instructions" THEN instr \o prompt ELSE sess[k]]]
  ELSE cfg

EnrichGemini(cfg, prompt) ==
  IF /\ Has(cfg.payload, "setup") /\ Has(cfg.payload.setup, "systemInstruction")
     /\ Has(cfg.payload.setup.systemInstruction, "parts")
     /\ Len(cfg.payload.setup.systemInstruction.parts) > 0
  THEN LET part == cfg.payload.setup.systemInstruction.parts[1]
           text == IF Has(part, "text") THEN part.text ELSE <<>>
       IN  [cfg EXCEPT !.payload.setup.systemInstruction.parts[1] =
              [k \in DOMAIN part \cup {"text"} |->
                 IF k = "text" THEN text \o prompt ELSE part[k]]]
  ELSE cfg

(* The value getSessionConfiguration returns once the history has been read *)
getSessionConfiguration(style, cfg, conversationHistory) ==
  IF ~IsSome(cfg) THEN None
  ELSE IF IsSome(conversationHistory) /\ Truthy(Get(conversationHistory))
  THEN Some(IF style = OPENAI
            THEN EnrichOAI(Get(cfg), ContextPrompt(Get(conversationHistory)))
            ELSE EnrichGemini(Get(cfg), ContextPrompt(Get(conversationHistory))))
  ELSE cfg

(* Whether the rest of getSessionConfiguration and of onProviderConnected  *)
(* throws once the history has been read: the deep copy of a stored config *)
(* that cleanup has set to null is null and its payload is read, or the    *)
(* config is handed to this.clientTransformer after Pipeline.cleanup has   *)
(* set it to null                                                          *)
replayRaises(style, cfg, conversationHistory, cleaned) ==
  IF ~IsSome(cfg)
  THEN IsSome(conversationHistory) /\ Truthy(Get(conversationHistory))
  ELSE cleaned /\ Get(cfg).src = style

(***************************************************************************)
(* Checkpointer: the transcript buffer                                     *)
(***************************************************************************)
EmptyBuffer == [currentType |-> None, currentContentBuffer |-> <<>>,
                currentContentLength |-> 0]

(* flushBuffer: the content handed to persistence.append (optional) *)
(* a variant that hands the joined buffer to append even when it is empty *)
flushContent_appendsEmpty(ck) == Some(Flatten(ck.currentContentBuffer))

flushContent(ck) ==
  IF Len(ck.currentContentBuffer) > 0 THEN Some(Flatten(ck.currentContentBuffer))
  ELSE None

(* a variant that starts every prefixed chunk with a newline *)
saveBuffered_alwaysNewline(ck, type, content) ==
  LET chunk == IF ck.currentType # Some(type)
               THEN <<"\n", type, ":">> \o content
               ELSE content
  IN  [currentType |-> Some(type),
       currentContentBuffer |-> Append(ck.currentContentBuffer, chunk),
       currentContentLength |-> ck.currentContentLength + Len(content)]

saveBuffered(ck, type, content) ==
  LET chunk == IF ck.currentType # Some(type)
               THEN (IF Len(ck.currentContentBuffer) > 0 THEN <<"\n">> ELSE <<>>)
                      \o <<type, ":">> \o content
               ELSE content
  IN  [currentType |-> Some(type),
       currentContentBuffer |-> Append(ck.currentContentBuffer, chunk),
       currentContentLength |-> ck.currentContentLength + Len(content)]

(* a variant whose flush leaves the buffer as it was until the append has   *)
(* completed                                                               *)
save_resetsLater(ck, type, content) ==
  LET b == saveBuffered(ck, type, content)
  IN  IF b.currentContentLength > BUFFER_SIZE_LIMIT
      THEN [ck |-> b, appended |-> flushContent(b)]
      ELSE [ck |-> b, appended |-> None]

(* BaseCheckpoint.save: the buffer afterwards, and what was handed to append *)
save(ck, type, content) ==
  LET b == saveBuffered(ck, type, content)
  IN  IF b.currentContentLength > BUFFER_SIZE_LIMIT
      THEN [ck |-> EmptyBuffer, appended |-> flushContent(b)]
      ELSE [ck |-> b, appended |-> None]

(* What OAICheckpoint / GeminiCheckpoint save for one event: <<type, text>> or none *)
CheckpointEntry(style, ev) ==
  LET p == ev.payload
      kind == ServerExtract(style, p)
  IN  IF style = OPENAI
      THEN IF kind \in {"userTranscript", "responseTranscript"}
              /\ Has(p, "delta") /\ Truthy(p.delta)
           THEN Some(<<IF kind = "userTranscript" THEN "user" ELSE "agent", p.delta>>)
           ELSE None
      ELSE IF kind = "userTranscript" /\ Has(p.serverContent.inputTranscription, "text")
              /\ Truthy(p.serverContent.inputTranscription.text)
           THEN Some(<<"user", p.serverContent.inputTranscription.text>>)
           ELSE IF kind = "responseTranscript"
                   /\ Has(p.serverContent.outputTranscription, "text")
                   /\ Truthy(p.serverContent.outputTranscription.text)
           THEN Some(<<"agent", p.serverContent.outputTranscription.text>>)
           ELSE None

(* Checkpoint.receiveEvent on a sequence of events, extractor registered.  *)
(* st.since lists the entries saved since the last flush.                  *)
RECURSIVE CheckpointReceive(_, _, _)
CheckpointReceive(style, st, evs) ==
  IF Len(evs) = 0 THEN st
  ELSE LET e == CheckpointEntry(style, Head(evs))
           r == IF IsSome(e) THEN save(st.ck, Get(e)[1], Get(e)[2])
                ELSE [ck |-> st.ck, appended |-> None]
       IN  CheckpointReceive(style,
             [ck |-> r.ck, appends |-> st.appends \o r.appended,
              since |-> IF IsSome(r.appended) THEN <<>> ELSE st.since \o e],
             Tail(evs))

(* the text of a checkpoint marker: the label, the reason, a separator and *)
(* the time of the call, each kept as one token                            *)
CheckpointContent == <<"Checkpoint: ", "Manual checkpoint", " - ", "now">>

(* BaseCheckpoint.createCheckpoint: flush what is buffered, save the       *)
(* marker, flush again; the buffer afterwards and what was handed to append *)
createCheckpoint(ck) ==
  LET first == flushContent(ck)
      marker == save(EmptyBuffer, "agent_checkpoint", CheckpointContent)
      second == IF IsSome(marker.appended) THEN marker.appended
                ELSE flushContent(marker.ck)
  IN  [ck |-> EmptyBuffer, appends |-> first \o second]

(* a variant that replaces the file's content, as writeFile does *)
appendFile_truncates(file, content) == Some(content)

(* fs.appendFile: the file afterwards (created if it did not exist) *)
appendFile(file, content) ==
  Some((IF IsSome(file) THEN Get(file) ELSE <<>>) \o content)

(***************************************************************************)
(* PingSwitch                                                              *)
(***************************************************************************)
getOtherProvider(cur) == IF cur = OPENAI THEN GEMINI ELSE OPENAI

LastN(l, n) == SubSeq(l, Len(l) - n + 1, Len(l))

(* a variant that also switches on latencies equal to the threshold *)
evaluateSwitching_atLeastThreshold(latencies, cur, n) ==
  /\ Len(latencies[cur]) >= n
  /\ \A i \in 1..n : LastN(latencies[cur], n)[i] >= LATENCY_THRESHOLD_MS

(* evaluateSwitching: TRUE when performSwitch is called *)
evaluateSwitching(latencies, cur, n) ==
  /\ Len(latencies[cur]) >= n
  /\ \A i \in 1..n : LastN(latencies[cur], n)[i] > LATENCY_THRESHOLD_MS

(* a variant whose performSwitch calls the callback without updating       *)
(* currentProvider                                                         *)
addStats_keepsCurrent(latencies, cur, n, stats) ==
  LET pushed == [latencies EXCEPT ![stats.provider] = Append(@, stats.latency)]
  IN  IF stats.provider = cur /\ evaluateSwitching(pushed, cur, n)
      THEN [latencies |-> [pushed EXCEPT ![cur] = <<>>],
            currentProvider |-> cur,
            target |-> Some(getOtherProvider(cur))]
      ELSE [latencies |-> pushed, currentProvider |-> cur, target |-> None]

(* addStats: latencies and currentProvider afterwards, and the switch target *)
addStats(latencies, cur, n, stats) ==
  LET pushed == [latencies EXCEPT ![stats.provider] = Append(@, stats.latency)]
  IN  IF stats.provider = cur /\ evaluateSwitching(pushed, cur, n)
      THEN [latencies |-> [pushed EXCEPT ![cur] = <<>>],
            currentProvider |-> getOtherProvider(cur),
            target |-> Some(getOtherProvider(cur))]
      ELSE [latencies |-> pushed, currentProvider |-> cur, target |-> None]

(***************************************************************************)
(* SecureIPCClient: the object and what its handlers do to it              *)
(***************************************************************************)
(* the fields after construction; socket and reconnectTimer are 0 for null *)
NewIPCClient ==
  [socket |-> 0, connected |-> FALSE, connecting |-> FALSE, reconnectAttempts |-> 0,
   reconnectTimer |-> 0, pendingRequests |-> {}]

(* scheduleReconnect: timer is the timer it would set *)
scheduleReconnect(c, timer) ==
  IF c.reconnectAttempts >= maxReconnectAttempts THEN c
  ELSE [c EXCEPT !.reconnectTimer = timer]

(* handleDisconnect, up to the rejection of the pending requests *)
handleDisconnect(c, timer) ==
  scheduleReconnect([c EXCEPT !.connected = FALSE, !.connecting = FALSE, !.socket = 0,
                              !.pendingRequests = {}], timer)

(* a variant that resolves the request and leaves its timeout armed *)
processResponse_keepsTimeout(req) ==
  [req EXCEPT !.settled = Append(@, "response")]

(* processResponse for a pending request: its timeout is cleared and it is *)
(* resolved                                                                *)
processResponse(req) ==
  [req EXCEPT !.timeout = FALSE, !.settled = Append(@, "response")]

(* disconnect(), up to the socket.end() call: the reconnectTimer field is  *)
(* reset and reconnectAttempts is set to the maximum                       *)
disconnect(c) ==
  [c EXCEPT !.reconnectTimer = 0, !.reconnectAttempts = maxReconnectAttempts]

(***************************************************************************)
(* State                                                                   *)
(***************************************************************************)
VARIABLES
  apiStyle,              \* Pipeline.apiStyle (S)
  provider,              \* Pipeline.provider
  geminiKey,             \* whether GEMINI_API_KEY is configured
  consecutiveFailures,   \* PingSwitch.CONSECUTIVE_FAILURES (N)
  sessionConfiguration,  \* SessionManager.sessionConfiguration (optional event)
  smSubscribers,         \* SessionManager.subscribers: generations of client translators
  gens,                  \* every (provider connection, translators) triple ever built
  cur,                   \* the triple the Pipeline's three references point to
  nextSock,              \* number of upstream sockets created so far
  upstream,              \* messages written to upstream sockets, in order
  downstream,            \* events delivered to the downstream socket, in order
  received,              \* events the provider connections emitted, in order
  checkpoint,            \* the Checkpointer's transcript buffer
  pendingAppends,        \* conversation appends handed to persistence, in flush order
  conversationsFile,     \* persisted conversation log (optional text)
  sessionsFile,          \* persisted session config (optional JSON text)
  pendingWrites,         \* config overwrites handed to persistence, not yet on disk
  initLoad,              \* the constructor's loadSessionConfiguration is in flight
  replays,               \* every onProviderConnected run, in the order they started
  providerLatencies,     \* PingSwitch.providerLatencies
  currentProvider,       \* PingSwitch.currentProvider
  switchRequests,        \* targets handed to the switch callback, in order
  sinceSwitch,           \* samples for currentProvider passed to addStats since the last switch
  lastStats,             \* the last sample passed to addStats (optional)
  nStats,                \* number of samples passed to addStats
  updates,               \* session maps of the sessionUpdate events received, in order
  reloaded,              \* a load from persistence has replaced the stored config
  lastClient,            \* the last event passed to Pipeline.receiveEvent (optional)
  swaps,                 \* providers in use before each updateProvider call, in order
  cleanedUp,             \* Pipeline.cleanup has been called
  sinceFlush,            \* the <<kind, text>> entries saved since the last flush, in order
  landed,                \* the appends that have reached the log, as indices of pendingAppends
  trips,                 \* events handed to a translator and what came out, in order
  cleanups,              \* the objects cleanup() has been called on, in call order
  emits,                 \* emitEvent calls on a node with several subscribers, in order
  failures,              \* the persistence operations that have failed, in order
  ipcClient,             \* the SecureIPCClient's fields
  ipcSockets,            \* every net.Socket the client has created, in order
  ipcTimers,             \* every reconnect timer the client has set, in order
  ipcRequests,           \* every sendMessage call, in order
  ipcDisconnected,       \* disconnect() was called and no connect or sendMessage since
  nClient, nUpstream

vars == << apiStyle, provider, geminiKey, consecutiveFailures, sessionConfiguration,
           smSubscribers, gens, cur, nextSock, upstream, downstream, received,
           checkpoint, pendingAppends, conversationsFile, sessionsFile, pendingWrites,
           initLoad, replays, providerLatencies, currentProvider, switchRequests,
           sinceSwitch, lastStats, nStats, updates, reloaded, lastClient, swaps,
           cleanedUp, landed, sinceFlush, trips, cleanups, emits, failures, ipcClient,
           ipcSockets, ipcTimers, ipcRequests, ipcDisconnected, nClient, nUpstream >>

ipcVars == << ipcClient, ipcSockets, ipcTimers, ipcRequests, ipcDisconnected >>
switchVars == << providerLatencies, currentProvider, switchRequests, sinceSwitch,
                 lastStats, nStats >>
pipelineVars == << apiStyle, provider, geminiKey, consecutiveFailures,
                   sessionConfiguration, smSubscribers, gens, cur, nextSock, upstream,
                   downstream, received, checkpoint, pendingAppends, conversationsFile,
                   sessionsFile, pendingWrites, initLoad, replays, updates, reloaded,
                   lastClient, swaps, cleanedUp, landed, sinceFlush, trips, cleanups,
                   emits, failures, nClient, nUpstream >>

(***************************************************************************)
(* Inputs                                                                  *)
(***************************************************************************)
Instr(c) == <<c>>

GeminiSetups == { [model |-> "m",
                   systemInstruction |-> [parts |-> << [text |-> Instr("i")] >>]],
                  [tools |-> << GeminiToolDef >>] }

MergeSessions == { [voice |-> "a", instructions |-> Instr("i"), tools |-> << OAIToolDef >>],
                   [voice |-> "b"],
                   [instructions |-> <<>>],
                   [tools |-> <<>>],
                   [tools |-> << OAIToolDef, OAIToolDef >>, voice |-> "a"] }

ClientInputs(style) ==
  IF style = OPENAI
  THEN { OAISessionUpdate([voice |-> "a", instructions |-> Instr("i")]), OAIResponseCreate }
  ELSE { GeminiSetup([model |-> "m",
                      systemInstruction |-> [parts |-> << [text |-> Instr("i")] >>]]),
         GeminiClientContent }

MergeInputs(style) ==
  IF style = OPENAI THEN { OAISessionUpdate(m) : m \in MergeSessions }
  ELSE { GeminiSetup(m) : m \in GeminiSetups }

UpstreamInputs(prov) ==
  IF prov = OPENAI
  THEN { [type |-> "response.audio_transcript.delta", delta |-> <<"h", "e">>],
         [type |-> "conversation.item.input_audio_transcription.delta", delta |-> <<"y", "o">>],
         [type |-> "session.created"] }
  ELSE { [serverContent |-> [outputTranscription |-> [text |-> <<"h", "e">>]]],
         [serverContent |-> [inputTranscription |-> [text |-> <<"y", "o">>]]],
         [setupComplete |-> TRUE] }

(* the SWITCH_FAILURE_COUNT the pipeline is configured with *)
SWITCH_FAILURE_COUNT == 1

PongLatencies == { LATENCY_THRESHOLD_MS + 1 }
SampleLatencies == { LATENCY_THRESHOLD_MS - 1, LATENCY_THRESHOLD_MS, LATENCY_THRESHOLD_MS + 1 }

PriorConversation == <<"user", ":", "h", "i", "\n", "agent", ":", "y", "o", "\n">>

PersistedConfigs(style) ==
  IF style = OPENAI
  THEN { [src |-> OPENAI, payload |-> OAISessionUpdate([instructions |-> Instr("p")])] }
  ELSE { [src |-> GEMINI,
          payload |-> GeminiSetup([systemInstruction |-> [parts |-> << [text |-> Instr("p")] >>]])] }

(***************************************************************************)
(* Construction                                                            *)
(***************************************************************************)
(* determinePipeline + registerProviderForSwitching + initPipeline: a new  *)
(* provider connection (its socket connecting) with both translators wired *)
NewGen(prov, sock) ==
  [prov |-> prov, sock |-> sock, firstSock |-> sock, readyState |-> "CONNECTING",
   handlers |-> TRUE,
   selfClosing |-> FALSE, connectionCallback |-> TRUE, statsCallback |-> TRUE,
   pemSubscribed |-> TRUE, ctSubscribed |-> TRUE, stSubscribed |-> TRUE,
   ctExtractor |-> TRUE, stExtractor |-> TRUE,
   userConvId |-> None, ctFirst |-> None]

(* GeminiEventManager.connect throws when GEMINI_API_KEY is missing *)
connectThrows(prov) == prov = GEMINI /\ ~geminiKey

InitSwitchState ==
  /\ providerLatencies = [p \in Providers |-> <<>>]
  /\ currentProvider = provider
  /\ switchRequests = <<>>
  /\ sinceSwitch = 0
  /\ lastStats = None
  /\ nStats = 0

(* new Pipeline(...) for a session whose persisted config is one of files *)
InitPipelineWith(files) ==
  /\ apiStyle \in Providers
  /\ provider \in Providers
  /\ geminiKey \in BOOLEAN
  /\ ~connectThrows(provider)
  /\ sessionConfiguration = None
  /\ smSubscribers = <<1>>
  /\ gens = << NewGen(provider, 1) >>
  /\ cur = 1
  /\ nextSock = 1
  /\ upstream = <<>>
  /\ downstream = <<>>
  /\ received = <<>>
  /\ checkpoint = EmptyBuffer
  /\ pendingAppends = <<>>
  /\ conversationsFile \in {None, Some(PriorConversation)}
  /\ sessionsFile \in files
  /\ pendingWrites = {}
  /\ initLoad = TRUE
  /\ replays = <<>>
  /\ updates = <<>>
  /\ reloaded = FALSE
  /\ lastClient = None
  /\ swaps = <<>>
  /\ cleanedUp = FALSE
  /\ landed = <<>>
  /\ sinceFlush = <<>>
  /\ trips = <<>>
  /\ cleanups = <<>>
  /\ emits = <<>>
  /\ failures = <<>>
  /\ ipcClient = NewIPCClient
  /\ ipcSockets = <<>>
  /\ ipcTimers = <<>>
  /\ ipcRequests = <<>>
  /\ ipcDisconnected = FALSE
  /\ nClient = 0 /\ nUpstream = 0

(* a session that has nothing persisted, or a config its own style persisted *)
InitPipeline ==
  InitPipelineWith({None} \cup { Some(JSONstringify(c)) : c \in PersistedConfigs(apiStyle) })

(* the state after new Pipeline(...), whatever the session's persisted files hold *)
InitConnection ==
  /\ InitPipeline
  /\ consecutiveFailures = SWITCH_FAILURE_COUNT
  /\ InitSwitchState

(* a session that starts with nothing persisted, both API keys configured *)
Init ==
  /\ InitConnection
  /\ geminiKey
  /\ sessionsFile = None
  /\ conversationsFile = None

(***************************************************************************)
(* Client path: Pipeline.receiveEvent -> SessionManager -> translator ->   *)
(* provider connection                                                     *)
(***************************************************************************)
(* a config with the client's style is held or persisted *)
ConfigAvailable ==
  IF IsSome(sessionConfiguration) THEN Get(sessionConfiguration).src = apiStyle
  ELSE IsSome(sessionsFile) /\ JSONparse(Get(sessionsFile)).src = apiStyle

(* a variant that writes whatever the socket's readyState is *)
ClientWrites_anyState(g, ev, isReplay) ==
  LET outs == IF gens[g].ctExtractor THEN ClientTransform(apiStyle, gens[g].prov, ev)
              ELSE <<>>
  IN  [i \in 1..Len(outs) |->
         [sock |-> gens[g].sock, ev |-> outs[i], replay |-> isReplay,
          held |-> ConfigAvailable, prov |-> gens[g].prov,
          call |-> IF isReplay THEN 0 ELSE nClient + 1, idx |-> i, from |-> ev]]

(* ClientEventTransformer.receiveEvent followed by the provider's          *)
(* receiveEvent: the messages generation g writes to its socket.  Each     *)
(* message is logged with the receiveEvent call it came from (call, from)  *)
(* and its position among the events the translator emitted for it (idx).  *)
ClientWrites(g, ev, isReplay) ==
  LET outs == IF gens[g].ctExtractor THEN ClientTransform(apiStyle, gens[g].prov, ev)
              ELSE <<>>
  IN  IF gens[g].readyState = "OPEN"
      THEN [i \in 1..Len(outs) |->
              [sock |-> gens[g].sock, ev |-> outs[i], replay |-> isReplay,
               held |-> ConfigAvailable, prov |-> gens[g].prov,
               call |-> IF isReplay THEN 0 ELSE nClient + 1, idx |-> i, from |-> ev]]
      ELSE <<>>

RECURSIVE EmitToTranslators(_, _)
EmitToTranslators(subs, ev) ==
  IF Len(subs) = 0 THEN <<>>
  ELSE ClientWrites(Head(subs), ev, FALSE) \o EmitToTranslators(Tail(subs), ev)

(* the first event each translator was handed, whether it was a replay, and  *)
(* whether a sessionUpdate had been received before it                     *)
MarkFirst(gs, targets, ev, isReplay) ==
  [g \in DOMAIN gs |->
     IF g \in targets /\ ~IsSome(gs[g].ctFirst)
     THEN [gs[g] EXCEPT !.ctFirst = Some([ev |-> ev, replay |-> isReplay,
                                          seen |-> Len(updates) > 0])]
     ELSE gs[g]]

Range(f) == { f[i] : i \in DOMAIN f }

ReceiveEvent(payload, max) ==
  /\ nClient < max
  /\ ~cleanedUp
  /\ LET ev == [src |-> apiStyle, payload |-> payload]
         isUpdate == ClientExtract(apiStyle, payload) = "sessionUpdate"
         merged == IF isUpdate THEN mergeSessionConfiguration(sessionConfiguration, ev)
                   ELSE sessionConfiguration
     IN  /\ sessionConfiguration' = merged
         /\ pendingWrites' = IF isUpdate THEN pendingWrites \cup {JSONstringify(Get(merged))}
                             ELSE pendingWrites
         /\ upstream' = upstream \o EmitToTranslators(smSubscribers, ev)
         /\ gens' = MarkFirst(gens, Range(smSubscribers), ev, FALSE)
         /\ updates' = IF isUpdate THEN Append(updates, SessionOf(payload)) ELSE updates
         /\ lastClient' = Some(ev)
         /\ nClient' = nClient + 1
  /\ UNCHANGED ipcVars /\ UNCHANGED << apiStyle, failures, trips, cleanups, emits, sinceFlush, cleanedUp, landed, provider, geminiKey, consecutiveFailures, smSubscribers, cur,
                  nextSock, downstream, received, checkpoint, pendingAppends,
                  conversationsFile, sessionsFile, initLoad, replays, reloaded, swaps,
                  nUpstream >>
  /\ UNCHANGED switchVars

(* FilePersistence.overwrite: a writeFile started earlier completes *)
ApplyWrite(c) ==
  /\ c \in pendingWrites
  /\ sessionsFile' = Some(c)
  /\ pendingWrites' = pendingWrites \ {c}
  /\ UNCHANGED ipcVars /\ UNCHANGED << apiStyle, failures, trips, cleanups, emits, sinceFlush, cleanedUp, landed, provider, geminiKey, consecutiveFailures, sessionConfiguration,
                  smSubscribers, gens, cur, nextSock, upstream, downstream, received,
                  checkpoint, pendingAppends, conversationsFile, initLoad, replays,
                  updates, reloaded, lastClient, swaps, nClient, nUpstream >>
  /\ UNCHANGED switchVars

(* a variant that never takes the persisted config *)
loadSessionConfiguration_keepsMemory(cfg, content) == cfg

(* loadSessionConfiguration once the read has completed *)
loadSessionConfiguration(cfg, content) ==
  IF IsSome(content) THEN Some(JSONparse(Get(content))) ELSE cfg

(* the load the SessionManager constructor started *)
InitLoadDone ==
  /\ initLoad
  /\ initLoad' = FALSE
  /\ sessionConfiguration' = loadSessionConfiguration(sessionConfiguration, sessionsFile)
  /\ reloaded' = (reloaded \/ IsSome(sessionsFile))
  /\ UNCHANGED ipcVars /\ UNCHANGED << apiStyle, failures, trips, cleanups, emits, sinceFlush, cleanedUp, landed, provider, geminiKey, consecutiveFailures, smSubscribers, gens,
                  cur, nextSock, upstream, downstream, received, checkpoint,
                  pendingAppends, conversationsFile, sessionsFile, pendingWrites, replays,
                  updates, lastClient, swaps, nClient, nUpstream >>
  /\ UNCHANGED switchVars

(***************************************************************************)
(* Provider connection: open, replay, unsolicited close                    *)
(***************************************************************************)
(* socket 'open': the connection callback starts Pipeline.onProviderConnected *)
ProviderOpen(g) ==
  /\ gens[g].handlers
  /\ gens[g].readyState = "CONNECTING"
  /\ gens' = [gens EXCEPT ![g].readyState = "OPEN"]
  /\ replays' = IF gens[g].connectionCallback
                THEN Append(replays, [sock |-> gens[g].sock, stage |-> "load",
                                      avail |-> ConfigAvailable, held |-> FALSE,
                                      fed |-> None, raised |-> FALSE])
                ELSE replays
  /\ UNCHANGED ipcVars /\ UNCHANGED << apiStyle, failures, trips, cleanups, emits, sinceFlush, cleanedUp, landed, provider, geminiKey, consecutiveFailures, sessionConfiguration,
                  smSubscribers, cur, nextSock, upstream, downstream, received,
                  checkpoint, pendingAppends, conversationsFile, sessionsFile,
                  pendingWrites, initLoad, updates, reloaded, lastClient, swaps,
                  nClient, nUpstream >>
  /\ UNCHANGED switchVars

(* getSessionConfiguration up to its null check: the config read has completed *)
ReplayLoadDone(i) ==
  /\ i \in DOMAIN replays
  /\ replays[i].stage = "load"
  /\ sessionConfiguration' = loadSessionConfiguration(sessionConfiguration, sessionsFile)
  /\ reloaded' = (reloaded \/ IsSome(sessionsFile))
  /\ replays' = [replays EXCEPT
                   ![i].stage = IF IsSome(sessionConfiguration') THEN "history" ELSE "done",
                   ![i].held = IsSome(sessionConfiguration')]
  /\ UNCHANGED ipcVars /\ UNCHANGED << apiStyle, failures, trips, cleanups, emits, sinceFlush, cleanedUp, landed, provider, geminiKey, consecutiveFailures, smSubscribers, gens,
                  cur, nextSock, upstream, downstream, received, checkpoint,
                  pendingAppends, conversationsFile, sessionsFile, pendingWrites, initLoad,
                  updates, lastClient, swaps, nClient, nUpstream >>
  /\ UNCHANGED switchVars

(* a variant that appends the transcript to the stored config itself, not *)
(* to a copy of it                                                         *)
ReplayHistoryDone_enrichesStored(i) ==
  /\ i \in DOMAIN replays
  /\ replays[i].stage = "history"
  /\ LET history == loadConversationHistory(conversationsFile)
         sessionConfig == getSessionConfiguration(apiStyle, sessionConfiguration, history)
         feed == /\ IsSome(sessionConfig) /\ Get(sessionConfig).src = apiStyle
                 /\ ~cleanedUp
     IN  /\ replays' = [replays EXCEPT ![i].stage = "done",
                                       ![i].fed = IF feed THEN sessionConfig ELSE None,
                                       ![i].raised = replayRaises(apiStyle, sessionConfiguration,
                                                                  history, cleanedUp)]
         /\ upstream' = IF feed THEN upstream \o ClientWrites(cur, Get(sessionConfig), TRUE)
                        ELSE upstream
         /\ gens' = IF feed THEN MarkFirst(gens, {cur}, Get(sessionConfig), TRUE) ELSE gens
         /\ sessionConfiguration' = sessionConfig
  /\ UNCHANGED ipcVars /\ UNCHANGED << apiStyle, failures, trips, cleanups, emits, sinceFlush, cleanedUp, landed, provider, geminiKey, consecutiveFailures,
                  smSubscribers, cur, nextSock, downstream, received, checkpoint,
                  pendingAppends, conversationsFile, sessionsFile, pendingWrites, initLoad,
                  updates, reloaded, lastClient, swaps, nClient, nUpstream >>
  /\ UNCHANGED switchVars

(* the rest of getSessionConfiguration and of onProviderConnected: the     *)
(* history read has completed, the config is handed to                     *)
(* this.clientTransformer (a null reference once Pipeline.cleanup has run) *)
ReplayHistoryDone(i) ==
  /\ i \in DOMAIN replays
  /\ replays[i].stage = "history"
  /\ LET history == loadConversationHistory(conversationsFile)
         sessionConfig == getSessionConfiguration(apiStyle, sessionConfiguration, history)
         feed == /\ IsSome(sessionConfig) /\ Get(sessionConfig).src = apiStyle
                 /\ ~cleanedUp
     IN  /\ replays' = [replays EXCEPT ![i].stage = "done",
                                       ![i].fed = IF feed THEN sessionConfig ELSE None,
                                       ![i].raised = replayRaises(apiStyle, sessionConfiguration,
                                                                  history, cleanedUp)]
         /\ upstream' = IF feed THEN upstream \o ClientWrites(cur, Get(sessionConfig), TRUE)
                        ELSE upstream
         /\ gens' = IF feed THEN MarkFirst(gens, {cur}, Get(sessionConfig), TRUE) ELSE gens
  /\ UNCHANGED ipcVars /\ UNCHANGED << apiStyle, failures, trips, cleanups, emits, sinceFlush, cleanedUp, landed, provider, geminiKey, consecutiveFailures, sessionConfiguration,
                  smSubscribers, cur, nextSock, downstream, received, checkpoint,
                  pendingAppends, conversationsFile, sessionsFile, pendingWrites, initLoad,
                  updates, reloaded, lastClient, swaps, nClient, nUpstream >>
  /\ UNCHANGED switchVars

(* handleClose on a close the pipeline did not ask for: connect() again,   *)
(* at once and however many attempts have failed before; max bounds the   *)
(* sockets a run may use                                                   *)
ProviderCloseWithin(g, max) ==
  /\ nextSock < max
  /\ gens[g].handlers
  /\ ~gens[g].selfClosing
  /\ gens[g].readyState \in {"CONNECTING", "OPEN"}
  /\ gens' = [gens EXCEPT ![g].readyState = "CONNECTING", ![g].sock = nextSock + 1]
  /\ nextSock' = nextSock + 1
  /\ UNCHANGED ipcVars /\ UNCHANGED << apiStyle, failures, trips, cleanups, emits, sinceFlush, cleanedUp, landed, provider, geminiKey, consecutiveFailures, sessionConfiguration,
                  smSubscribers, cur, upstream, downstream, received, checkpoint,
                  pendingAppends, conversationsFile, sessionsFile, pendingWrites, initLoad,
                  replays, updates, reloaded, lastClient, swaps, nClient, nUpstream >>
  /\ UNCHANGED switchVars

(* a variant that leaves the connection closed *)
ProviderClose_noReconnect(g) ==
  /\ nextSock < MaxSockets
  /\ gens[g].handlers
  /\ ~gens[g].selfClosing
  /\ gens[g].readyState \in {"CONNECTING", "OPEN"}
  /\ gens' = [gens EXCEPT ![g].readyState = "CLOSED"]
  /\ UNCHANGED ipcVars /\ UNCHANGED << apiStyle, failures, trips, cleanups, emits, sinceFlush, cleanedUp, landed, provider, geminiKey, consecutiveFailures,
                  sessionConfiguration, smSubscribers, cur, nextSock, upstream, downstream,
                  received, checkpoint, pendingAppends, conversationsFile, sessionsFile,
                  pendingWrites, initLoad, replays, updates, reloaded, lastClient, swaps,
                  nClient, nUpstream >>
  /\ UNCHANGED switchVars

(* handleClose on a close the pipeline did not ask for *)
ProviderClose(g) == ProviderCloseWithin(g, MaxSockets)

(***************************************************************************)
(* Server path: provider connection -> translator -> downstream socket and *)
(* Checkpointer                                                            *)
(***************************************************************************)
(* a variant whose identity translator forwards only what the extractor   *)
(* classifies, as the client-side identity translator does                *)
ServerEmits_viaExtractor(g, ev) ==
  IF ~gens[g].pemSubscribed THEN <<>>
  ELSE IF gens[g].prov = apiStyle
       THEN (IF ServerExtract(gens[g].prov, ev.payload) = "none" THEN <<>> ELSE <<ev>>)
  ELSE IF gens[g].stExtractor
       THEN ServerTransform(gens[g].prov, apiStyle, gens[g].userConvId, ev)
       ELSE <<>>

(* ServerEventTransformer.receiveEvent of generation g: the events emitted *)
ServerEmits(g, ev) ==
  IF ~gens[g].pemSubscribed THEN <<>>
  ELSE IF gens[g].prov = apiStyle THEN <<ev>>
  ELSE IF gens[g].stExtractor
       THEN ServerTransform(gens[g].prov, apiStyle, gens[g].userConvId, ev)
       ELSE <<>>

(* socket 'message' on generation g's provider connection *)
UpstreamMessage(g, payload) ==
  /\ nUpstream < MaxUpstreamEvents
  /\ gens[g].handlers
  /\ gens[g].readyState = "OPEN"
  /\ LET ev == [src |-> gens[g].prov, payload |-> payload]
         outs == ServerEmits(g, ev)
         ck == CheckpointReceive(apiStyle, [ck |-> checkpoint, appends |-> <<>>,
                                            since |-> sinceFlush], outs)
     IN  /\ received' = Append(received, [gen |-> g, ev |-> ev])
         /\ downstream' = downstream \o [i \in 1..Len(outs) |-> [gen |-> g, ev |-> outs[i]]]
         /\ checkpoint' = ck.ck
         /\ pendingAppends' = pendingAppends \o ck.appends
         /\ sinceFlush' = ck.since
         /\ gens' = IF gens[g].pemSubscribed /\ gens[g].prov # apiStyle /\ gens[g].stExtractor
                    THEN [gens EXCEPT ![g].userConvId =
                            ServerTransformUserConvId(gens[g].prov, apiStyle, @, ev)]
                    ELSE gens
  /\ nUpstream' = nUpstream + 1
  /\ UNCHANGED ipcVars /\ UNCHANGED << apiStyle, failures, trips, cleanups, emits, cleanedUp, landed, provider, geminiKey, consecutiveFailures, sessionConfiguration,
                  smSubscribers, cur, nextSock, upstream, conversationsFile, sessionsFile,
                  pendingWrites, initLoad, replays, updates, reloaded, lastClient, swaps,
                  nClient >>
  /\ UNCHANGED switchVars

(***************************************************************************)
(* Switching: pong -> PingSwitch.addStats -> Pipeline.updateProvider       *)
(***************************************************************************)
(* a variant that marks the connection as closing itself and releases      *)
(* nothing: subscribers, extractors, listeners and socket stay             *)
Cleaned_releasesNothing(gen) == [gen EXCEPT !.selfClosing = TRUE]

(* a variant that drops the callbacks and subscribers but neither removes  *)
(* the socket's listeners nor closes the socket                            *)
Cleaned_socketLeftOpen(gen) ==
  [gen EXCEPT !.pemSubscribed = FALSE, !.connectionCallback = FALSE,
              !.statsCallback = FALSE, !.selfClosing = TRUE,
              !.stExtractor = FALSE, !.ctExtractor = FALSE]

(* the provider connection and both translators after their cleanup():    *)
(* the connection drops its subscribers, the translators release only     *)
(* their extractors (ctSubscribed and stSubscribed stay as they were)      *)
Cleaned(gen) ==
  [gen EXCEPT !.pemSubscribed = FALSE, !.connectionCallback = FALSE,
              !.statsCallback = FALSE, !.selfClosing = TRUE, !.handlers = FALSE,
              !.readyState = "CLOSING", !.stExtractor = FALSE, !.ctExtractor = FALSE]

(* a variant that also cleans up the SessionManager and the checkpoint,    *)
(* as Pipeline.cleanup does                                                *)
updateProvider_cleansSession(newProvider) ==
  LET cleaned == [gens EXCEPT ![cur] = Cleaned(@)]
  IN  IF connectThrows(newProvider)
      THEN [provider |-> newProvider, gens |-> cleaned, cur |-> cur,
            smSubscribers |-> smSubscribers, nextSock |-> nextSock,
            sessionConfiguration |-> None, checkpoint |-> EmptyBuffer]
      ELSE [provider |-> newProvider,
            gens |-> Append(cleaned, NewGen(newProvider, nextSock + 1)),
            cur |-> Len(gens) + 1,
            smSubscribers |-> Append(smSubscribers, Len(gens) + 1),
            nextSock |-> nextSock + 1,
            sessionConfiguration |-> None, checkpoint |-> EmptyBuffer]

(* Pipeline.updateProvider: the state afterwards. The SessionManager and   *)
(* the checkpoint are not touched. When the new provider's constructor     *)
(* throws, the statements after determinePipeline are not executed.        *)
updateProvider(newProvider) ==
  LET cleaned == [gens EXCEPT ![cur] = Cleaned(@)]
  IN  IF connectThrows(newProvider)
      THEN [provider |-> newProvider, gens |-> cleaned, cur |-> cur,
            smSubscribers |-> smSubscribers, nextSock |-> nextSock,
            sessionConfiguration |-> sessionConfiguration, checkpoint |-> checkpoint]
      ELSE [provider |-> newProvider,
            gens |-> Append(cleaned, NewGen(newProvider, nextSock + 1)),
            cur |-> Len(gens) + 1,
            smSubscribers |-> Append(smSubscribers, Len(gens) + 1),
            nextSock |-> nextSock + 1,
            sessionConfiguration |-> sessionConfiguration, checkpoint |-> checkpoint]

(* PingSwitch.addStats on one sample; the switch callback is recorded *)
AddStatsEffect(stats) ==
  LET r == addStats(providerLatencies, currentProvider, consecutiveFailures, stats)
  IN  /\ providerLatencies' = r.latencies
      /\ currentProvider' = r.currentProvider
      /\ switchRequests' = switchRequests \o r.target
      /\ sinceSwitch' = IF IsSome(r.target) THEN 0
                        ELSE IF stats.provider = currentProvider THEN sinceSwitch + 1
                        ELSE sinceSwitch
      /\ lastStats' = Some(stats)
      /\ nStats' = nStats + 1

(* socket 'pong' on generation g's provider connection; max bounds the     *)
(* sockets a run may use                                                   *)
PongWithin(g, latency, max) ==
  /\ nextSock < max
  /\ gens[g].handlers
  /\ gens[g].readyState = "OPEN"
  /\ gens[g].statsCallback
  /\ LET stats == [provider |-> gens[g].prov, latency |-> latency]
         r == addStats(providerLatencies, currentProvider, consecutiveFailures, stats)
         u == updateProvider(Get(r.target))
     IN  /\ AddStatsEffect(stats)
         /\ IF IsSome(r.target)
            THEN /\ provider' = u.provider
                 /\ gens' = u.gens
                 /\ cur' = u.cur
                 /\ smSubscribers' = u.smSubscribers
                 /\ nextSock' = u.nextSock
                 /\ sessionConfiguration' = u.sessionConfiguration
                 /\ checkpoint' = u.checkpoint
                 /\ swaps' = Append(swaps, provider)
            ELSE UNCHANGED << provider, gens, cur, smSubscribers, nextSock, swaps,
                              sessionConfiguration, checkpoint >>
  /\ UNCHANGED ipcVars /\ UNCHANGED << apiStyle, failures, trips, cleanups, emits, sinceFlush, cleanedUp, landed, geminiKey, consecutiveFailures, upstream,
                  downstream, received, pendingAppends, conversationsFile,
                  sessionsFile, pendingWrites, initLoad, replays, updates, reloaded,
                  lastClient, nClient, nUpstream >>

(* socket 'pong' on generation g's provider connection *)
Pong(g, latency) == PongWithin(g, latency, MaxSockets)

(***************************************************************************)
(* Pipeline.cleanup: the downstream socket has closed                      *)
(***************************************************************************)
(* SessionManager.cleanup, then cleanup of the current provider connection *)
(* and translators, then BaseCheckpoint.cleanup, which hands what is left  *)
(* in the transcript buffer to persistence                                 *)
PipelineCleanup ==
  /\ ~cleanedUp
  /\ cleanedUp' = TRUE
  /\ sessionConfiguration' = None
  /\ smSubscribers' = <<>>
  /\ gens' = [gens EXCEPT ![cur] = Cleaned(@)]
  /\ pendingAppends' = pendingAppends \o flushContent(checkpoint)
  /\ checkpoint' = EmptyBuffer
  /\ sinceFlush' = <<>>
  /\ cleanups' = Append(cleanups, <<"pipeline">>)
  /\ UNCHANGED ipcVars /\ UNCHANGED << apiStyle, failures, trips, emits, landed, provider, geminiKey, consecutiveFailures, cur, nextSock,
                  upstream, downstream, received, conversationsFile, sessionsFile,
                  pendingWrites, initLoad, replays, updates, reloaded, lastClient, swaps,
                  nClient, nUpstream >>
  /\ UNCHANGED switchVars

(* Pipeline.cleanup called once more: its references to the SessionManager, *)
(* the provider connection and the translators are null by then, the one   *)
(* to the checkpoint is not                                                *)
PipelineCleanupAgain ==
  /\ cleanedUp
  /\ Len(cleanups) < MaxCleanups
  /\ pendingAppends' = pendingAppends \o flushContent(checkpoint)
  /\ checkpoint' = EmptyBuffer
  /\ sinceFlush' = <<>>
  /\ cleanups' = Append(cleanups, <<"pipeline">>)
  /\ UNCHANGED ipcVars /\ UNCHANGED << apiStyle, failures, trips, emits, cleanedUp, sessionConfiguration, smSubscribers, gens,
                  landed, provider, geminiKey, consecutiveFailures, cur, nextSock,
                  upstream, downstream, received, conversationsFile, sessionsFile,
                  pendingWrites, initLoad, replays, updates, reloaded, lastClient, swaps,
                  nClient, nUpstream >>
  /\ UNCHANGED switchVars

(* cleanup() called once more on a provider connection and its two         *)
(* translators, which a swap or Pipeline.cleanup has cleaned up before     *)
ProviderCleanupAgain(g) ==
  /\ g \in DOMAIN gens
  /\ gens[g].selfClosing
  /\ Len(cleanups) < MaxCleanups
  /\ gens' = [gens EXCEPT ![g] = Cleaned(@)]
  /\ cleanups' = Append(cleanups, <<"provider", g>>)
  /\ UNCHANGED ipcVars /\ UNCHANGED << apiStyle, failures, trips, emits, cleanedUp, sessionConfiguration, smSubscribers,
                  checkpoint, pendingAppends, sinceFlush,
                  landed, provider, geminiKey, consecutiveFailures, cur, nextSock,
                  upstream, downstream, received, conversationsFile, sessionsFile,
                  pendingWrites, initLoad, replays, updates, reloaded, lastClient, swaps,
                  nClient, nUpstream >>
  /\ UNCHANGED switchVars

(* SessionManager.cleanup called once more, on the SessionManager as its   *)
(* cleanup left it                                                         *)
SessionManagerCleanupAgain ==
  /\ cleanedUp
  /\ ~IsSome(sessionConfiguration)
  /\ Len(cleanups) < MaxCleanups
  /\ sessionConfiguration' = None
  /\ smSubscribers' = <<>>
  /\ cleanups' = Append(cleanups, <<"sessionManager">>)
  /\ UNCHANGED ipcVars /\ UNCHANGED << apiStyle, failures, trips, emits, cleanedUp, gens,
                  checkpoint, pendingAppends, sinceFlush,
                  landed, provider, geminiKey, consecutiveFailures, cur, nextSock,
                  upstream, downstream, received, conversationsFile, sessionsFile,
                  pendingWrites, initLoad, replays, updates, reloaded, lastClient, swaps,
                  nClient, nUpstream >>
  /\ UNCHANGED switchVars

(***************************************************************************)
(* The pipeline                                                            *)
(***************************************************************************)
Gens == DOMAIN gens

(* the inputs from outside taken so far: client events, upstream messages, *)
(* and the closes and pongs that led to a new socket                       *)
InputsTaken == nClient + nUpstream + (nextSock - 1)

Next ==
  \/ /\ InputsTaken < MaxEvents
     /\ \E payload \in ClientInputs(apiStyle) : ReceiveEvent(payload, MaxEvents)
  \/ \E c \in pendingWrites : ApplyWrite(c)
  \/ InitLoadDone
  \/ \E g \in Gens : ProviderOpen(g)
  \/ \E i \in DOMAIN replays : ReplayLoadDone(i)
  \/ \E i \in DOMAIN replays : ReplayHistoryDone(i)
  \/ /\ InputsTaken < MaxEvents
     /\ \E g \in Gens : ProviderClose(g)
  \/ /\ InputsTaken < MaxEvents
     /\ \E g \in Gens : \E payload \in UpstreamInputs(gens[g].prov) :
          UpstreamMessage(g, payload)
  \/ /\ InputsTaken < MaxEvents
     /\ \E g \in Gens : \E latency \in PongLatencies : Pong(g, latency)

Spec == Init /\ [][Next]_vars

(* C8: a swap leaves the stored config, the transcript buffer (kind,       *)
(* chunks, character count), what was handed to persistence and what was   *)
(* sent downstream as they were, and replaces nothing but the current      *)
(* provider connection and its two translators.                            *)
C8_SwapFrame ==
  [][ Len(swaps') > Len(swaps) =>
        /\ sessionConfiguration' = sessionConfiguration
        /\ checkpoint' = checkpoint
        /\ pendingAppends' = pendingAppends
        /\ pendingWrites' = pendingWrites
        /\ downstream' = downstream
        /\ \A g \in DOMAIN gens : g # cur => gens'[g] = gens[g] ]_vars

(* a swap has just built a new connection while a config is stored and the *)
(* transcript buffer holds text                                            *)
C8_Witness ==
  /\ Len(swaps) = 1
  /\ Len(gens) = 2
  /\ gens[2].readyState = "CONNECTING"
  /\ IsSome(sessionConfiguration)
  /\ checkpoint.currentContentLength > 0
  /\ Len(downstream) > 0

(* C9: with S == P and the provider socket open, a client event passed to  *)
(* receiveEvent is written to that socket with its payload unchanged.      *)
C9_ClientPassThrough ==
  [][ (/\ nClient' > nClient
       /\ gens[cur].prov = apiStyle
       /\ gens[cur].readyState = "OPEN")
        => \E k \in (Len(upstream) + 1)..Len(upstream') :
             /\ upstream'[k].sock = gens[cur].sock
             /\ upstream'[k].ev = Get(lastClient') ]_vars

(* the events of one provider connection in a log, in the log's order *)
EventsOf(log, g) ==
  LET own == SelectSeq(log, LAMBDA e : e.gen = g)
  IN  [i \in 1..Len(own) |-> own[i].ev]

(* C10: with S == P, the events delivered downstream are the events        *)
(* received from the upstream, unchanged and in the order received.        *)
C10_ServerPassThrough ==
  \A g \in DOMAIN gens :
    gens[g].prov = apiStyle => EventsOf(downstream, g) = EventsOf(received, g)

(* two upstream events, the first one of no kind the extractor knows, have *)
(* been received over an S == P connection                                 *)
C10_Witness ==
  /\ gens[1].prov = apiStyle
  /\ Len(EventsOf(received, 1)) = 2
  /\ ServerExtract(apiStyle, received[1].ev.payload) = "none"
  /\ ServerExtract(apiStyle, received[2].ev.payload) # "none"
  /\ Len(downstream) = 2

(***************************************************************************)
(* Connection, replay and switching without upstream traffic               *)
(***************************************************************************)
ReplayInputs(style) ==
  IF style = OPENAI
  THEN { OAISessionUpdate([voice |-> "a", instructions |-> Instr("i")]), OAIAudioAppend }
  ELSE { GeminiSetup([model |-> "m",
                      systemInstruction |-> [parts |-> << [text |-> Instr("i")] >>]]),
         GeminiRealtimeInput }

NextReplay ==
  \/ \E payload \in ReplayInputs(apiStyle) : ReceiveEvent(payload, MaxReplayEvents)
  \/ \E c \in pendingWrites : ApplyWrite(c)
  \/ InitLoadDone
  \/ \E g \in Gens : ProviderOpen(g)
  \/ \E i \in DOMAIN replays : ReplayLoadDone(i)
  \/ \E i \in DOMAIN replays : ReplayHistoryDone(i)
  \/ \E g \in Gens : ProviderClose(g)
  \/ \E g \in Gens : \E latency \in PongLatencies : Pong(g, latency)

(* a session that resumes a persisted conversation *)
InitReplay == InitConnection /\ conversationsFile # None

SpecReplay == InitReplay /\ [][NextReplay]_vars

(* A read of the persistence layer that has been started completes (or     *)
(* fails, which the code treats as "nothing read"), so a replay that has   *)
(* started runs to its end.                                                *)
ReplayStep(i) == ReplayLoadDone(i) \/ ReplayHistoryDone(i)

NextReplayLive ==
  \/ /\ InputsTaken < MaxLiveEvents
     /\ \E payload \in ReplayInputs(apiStyle) : ReceiveEvent(payload, MaxLiveEvents)
  \/ \E c \in pendingWrites : ApplyWrite(c)
  \/ InitLoadDone
  \/ \E g \in Gens : ProviderOpen(g)
  \/ \E i \in DOMAIN replays : ReplayStep(i)
  \/ /\ InputsTaken < MaxLiveEvents
     /\ \E g \in Gens : ProviderClose(g)
  \/ /\ InputsTaken < MaxLiveEvents
     /\ \E g \in Gens : \E latency \in PongLatencies : Pong(g, latency)

SpecReplayLive ==
  /\ InitReplay
  /\ [][NextReplayLive]_vars
  /\ \A i \in 1..MaxSockets : WF_vars(ReplayStep(i))

SwapSockets == { gens[g].firstSock : g \in 2..Len(gens) }

(* C3: when a config is held or persisted, the first message written to a  *)
(* connection opened after a swap is the replayed config: no client event  *)
(* is written to it before.                                                *)
C3_ReplayIsFirstWrite ==
  \A k \in DOMAIN upstream :
    (/\ upstream[k].sock \in SwapSockets
     /\ upstream[k].held
     /\ \A j \in 1..(k - 1) : upstream[j].sock # upstream[k].sock)
      => upstream[k].replay

(* C4: the first event handed to a ClientTranslator built by a swap is the *)
(* replayed config with src == S if a sessionUpdate had been seen, and is  *)
(* not a replayed config if none had been seen.                            *)
C4_ConfigIsFirstDelivery ==
  \A g \in 2..Len(gens) :
    IsSome(gens[g].ctFirst) =>
      LET first == Get(gens[g].ctFirst)
      IN  /\ first.seen => (first.replay /\ first.ev.src = apiStyle)
          /\ ~first.seen => ~first.replay

(* C7: when the swap raises, PingSwitch.currentProvider and                *)
(* Pipeline.provider are what they were before the attempt.                *)
C7_FailedSwapKeepsProvider ==
  [][ (Len(swaps') > Len(swaps) /\ connectThrows(switchRequests'[Len(switchRequests')]))
        => (currentProvider' = currentProvider /\ provider' = provider) ]_vars

(***************************************************************************)
(* PingSwitch on its own: any stream of samples for either provider        *)
(***************************************************************************)
AddStats(prov, latency) ==
  /\ nStats < MaxSamples
  /\ AddStatsEffect([provider |-> prov, latency |-> latency])
  /\ UNCHANGED pipelineVars
  /\ UNCHANGED ipcVars

InitSwitch ==
  /\ InitPipeline
  /\ apiStyle = OPENAI
  /\ geminiKey
  /\ sessionsFile = None
  /\ conversationsFile = None
  /\ consecutiveFailures = DEFAULT_CONSECUTIVE_FAILURES
  /\ InitSwitchState

NextSwitch ==
  \E prov \in Providers : \E latency \in SampleLatencies : AddStats(prov, latency)

SpecSwitch == InitSwitch /\ [][NextSwitch]_vars

(* the latencies recorded for the sample's provider once the sample is pushed *)
Recorded(stats) == Append(providerLatencies[stats.provider], stats.latency)

(* C5: a call of addStats emits a switch request, to the other provider,   *)
(* if and only if the sample is for the current provider, at least N       *)
(* samples are then recorded for it and each of its last N recorded        *)
(* latencies is strictly greater than the threshold.                       *)
C5_SwitchIffLastNAbove ==
  [][ nStats' # nStats =>
        LET stats == Get(lastStats')
            rec == Recorded(stats)
            due == /\ stats.provider = currentProvider
                   /\ Len(rec) >= consecutiveFailures
                   /\ \A k \in 0..(consecutiveFailures - 1) :
                        rec[Len(rec) - k] > LATENCY_THRESHOLD_MS
        IN  switchRequests' = IF due
                              THEN Append(switchRequests, getOtherProvider(currentProvider))
                              ELSE switchRequests ]_vars

(* a switch has been requested, and N samples equal to the threshold for   *)
(* the current provider have requested none                                *)
C5_Witness ==
  /\ Len(switchRequests) = 1
  /\ Len(providerLatencies[currentProvider]) >= consecutiveFailures
  /\ \A k \in 1..Len(providerLatencies[currentProvider]) :
       providerLatencies[currentProvider][k] = LATENCY_THRESHOLD_MS

(* C6: once a switch request has been emitted, the next one is emitted     *)
(* only after at least N further samples for the new current provider      *)
(* have been passed to addStats.                                           *)
C6_NSamplesBetweenSwitches ==
  [][ (Len(switchRequests) >= 1 /\ Len(switchRequests') > Len(switchRequests))
        => sinceSwitch + 1 >= consecutiveFailures ]_vars

(***************************************************************************)
(* Session updates of a style-A session that starts with nothing          *)
(* persisted, before the provider connection opens: the SessionManager,    *)
(* its un-awaited writes and the load its constructor started              *)
(***************************************************************************)
InitMerge ==
  /\ Init
  /\ apiStyle = OPENAI

NextMerge ==
  \/ \E payload \in MergeInputs(apiStyle) : ReceiveEvent(payload, MaxMergeEvents)
  \/ \E c \in pendingWrites : ApplyWrite(c)
  \/ InitLoadDone

SpecMerge == InitMerge /\ [][NextMerge]_vars

(* the keys the updates name, and the last update naming a key *)
KeysNamed == UNION { DOMAIN updates[i] : i \in DOMAIN updates }
LastNaming(k) ==
  CHOOSE i \in DOMAIN updates :
    /\ k \in DOMAIN updates[i]
    /\ \A j \in DOMAIN updates : j > i => k \notin DOMAIN updates[j]

(* C1: as long as no load from persistence has replaced the stored config, *)
(* after session.update events U1..Un the stored config's payload.session  *)
(* has exactly the keys the updates name, each with the value of the last  *)
(* update that names it.                                                   *)
C1_MergeIsLeftFold ==
  (~reloaded /\ Len(updates) > 0) =>
     /\ IsSome(sessionConfiguration)
     /\ Has(Get(sessionConfiguration).payload, "session")
     /\ LET session == Get(sessionConfiguration).payload.session
        IN  /\ DOMAIN session = KeysNamed
            /\ \A k \in KeysNamed : session[k] = updates[LastNaming(k)][k]

(* three updates: an empty-string instruction and an array of tools have   *)
(* replaced earlier ones, and the voice of the first update is kept        *)
C1_Witness ==
  /\ ~reloaded
  /\ Len(updates) = 3
  /\ updates[1] = [voice |-> "a", instructions |-> Instr("i"), tools |-> << OAIToolDef >>]
  /\ updates[2] = [instructions |-> <<>>]
  /\ updates[3] = [tools |-> <<>>]
  /\ IsSome(sessionConfiguration)
  /\ Get(sessionConfiguration).payload.session =
       [voice |-> "a", instructions |-> <<>>, tools |-> <<>>]

(***************************************************************************)
(* Client events on their way to the provider socket: session updates and  *)
(* tool responses, across opens, replays, closes and swaps                 *)
(***************************************************************************)
OrderInputs(style) ==
  IF style = OPENAI
  THEN { OAISessionUpdate([voice |-> "a", instructions |-> Instr("i")]),
         OAIFunctionCallOutput }
  ELSE { GeminiSetup([model |-> "m",
                      systemInstruction |-> [parts |-> << [text |-> Instr("i")] >>]]),
         GeminiToolResponses }

NextOrder ==
  \/ /\ InputsTaken < MaxOrderEvents
     /\ \E payload \in OrderInputs(apiStyle) : ReceiveEvent(payload, MaxOrderEvents)
  \/ \E c \in pendingWrites : ApplyWrite(c)
  \/ InitLoadDone
  \/ \E g \in Gens : ProviderOpen(g)
  \/ \E i \in DOMAIN replays : ReplayLoadDone(i)
  \/ \E i \in DOMAIN replays : ReplayHistoryDone(i)
  \/ /\ InputsTaken < MaxOrderEvents
     /\ \E g \in Gens : ProviderClose(g)
  \/ /\ InputsTaken < MaxOrderEvents
     /\ \E g \in Gens : \E latency \in PongLatencies : Pong(g, latency)

SpecOrder == Init /\ [][NextOrder]_vars

(* C11: the messages written to provider sockets for client events are in  *)
(* the order of the receiveEvent calls they came from; the messages one    *)
(* event translates into are next to each other on one socket, in the      *)
(* order the translator emitted them: for a style-B tool response          *)
(* translated to style A, one function output per function response, in    *)
(* the order of the responses, and then the response trigger.              *)
C11_ClientOrder ==
  /\ \A j, k \in DOMAIN upstream :
       (j < k /\ ~upstream[j].replay /\ ~upstream[k].replay)
         => upstream[j].call <= upstream[k].call
  /\ \A k \in DOMAIN upstream :
       upstream[k].idx > 1 =>
         /\ k > 1
         /\ upstream[k - 1].call = upstream[k].call
         /\ upstream[k - 1].replay = upstream[k].replay
         /\ upstream[k - 1].sock = upstream[k].sock
         /\ upstream[k - 1].idx = upstream[k].idx - 1
  /\ \A k \in DOMAIN upstream :
       (/\ Has(upstream[k].from.payload, "toolResponse")
        /\ apiStyle = GEMINI /\ upstream[k].prov = OPENAI) =>
         LET frs == upstream[k].from.payload.toolResponse.functionResponses
             p == upstream[k].ev.payload
         IN  IF upstream[k].idx <= Len(frs)
             THEN /\ p.type = "conversation.item.create"
                  /\ p.item.call_id = frs[upstream[k].idx].id
             ELSE /\ upstream[k].idx = Len(frs) + 1
                  /\ p.type = "response.create"
  /\ \A k \in DOMAIN upstream :
       (~upstream[k].replay /\ upstream[k].prov = apiStyle)
         => upstream[k].ev = upstream[k].from

(* a session update and then a tool response with two function responses   *)
(* have been written to an OpenAI socket for a style-B client: one session *)
(* update, two function outputs and the response trigger                   *)
C11_Witness ==
  /\ apiStyle = GEMINI
  /\ Len(upstream) = 4
  /\ \A k \in DOMAIN upstream : upstream[k].prov = OPENAI /\ ~upstream[k].replay
  /\ upstream[1].call = 1 /\ upstream[1].ev.payload.type = "session.update"
  /\ upstream[2].call = 2 /\ upstream[2].ev.payload.item.call_id = "c1"
  /\ upstream[3].call = 2 /\ upstream[3].ev.payload.item.call_id = "c2"
  /\ upstream[4].call = 2 /\ upstream[4].ev.payload.type = "response.create"

(* the runs of onProviderConnected started for socket s *)
ConnectedCalls(s) == { i \in DOMAIN replays : replays[i].sock = s }

(* C12: when a connection's socket stops being open and cleanup has not    *)
(* been called on the connection, the same step leaves the connection with *)
(* a new socket that is connecting; each open of a socket fires the        *)
(* connection callback, and no socket has fired it more than once.         *)
C12_ReconnectRefires ==
  /\ [][ \A g \in DOMAIN gens :
           /\ (/\ gens[g].readyState = "OPEN"
               /\ gens'[g].readyState # "OPEN"
               /\ ~gens'[g].selfClosing)
                => /\ gens'[g].readyState = "CONNECTING"
                   /\ gens'[g].sock = nextSock + 1
                   /\ nextSock' = nextSock + 1
           /\ (gens[g].readyState = "CONNECTING" /\ gens'[g].readyState = "OPEN")
                => /\ Len(replays') = Len(replays) + 1
                   /\ replays'[Len(replays')].sock = gens[g].sock
                   /\ replays'[Len(replays')].stage = "load" ]_vars
  /\ [](\A s \in 1..nextSock : Cardinality(ConnectedCalls(s)) <= 1)
  /\ [](\A g \in DOMAIN gens :
          gens[g].readyState = "OPEN" => Cardinality(ConnectedCalls(gens[g].sock)) = 1)

(* the first socket opened and closed, the connection opened a second one, *)
(* and the callback has fired once for each                                *)
C12_Witness ==
  /\ Len(gens) = 1
  /\ gens[1].sock = 2
  /\ gens[1].readyState = "OPEN"
  /\ Len(replays) = 2
  /\ replays[1].sock = 1
  /\ replays[2].sock = 2

(***************************************************************************)
(* The pipeline with the downstream socket closing at any moment           *)
(***************************************************************************)
CleanupUpstreamInputs(prov) ==
  IF prov = OPENAI
  THEN { [type |-> "response.audio_transcript.delta", delta |-> <<"h", "e">>] }
  ELSE { [serverContent |-> [outputTranscription |-> [text |-> <<"h", "e">>]]] }

CleanupClientInputs(style) ==
  IF style = OPENAI
  THEN { OAISessionUpdate([voice |-> "a", instructions |-> Instr("i")]) }
  ELSE { GeminiSetup([model |-> "m",
                      systemInstruction |-> [parts |-> << [text |-> Instr("i")] >>]]) }

NextCleanup ==
  \/ /\ InputsTaken < MaxEvents
     /\ \E payload \in CleanupClientInputs(apiStyle) : ReceiveEvent(payload, MaxEvents)
  \/ InitLoadDone
  \/ \E g \in Gens : ProviderOpen(g)
  \/ \E i \in DOMAIN replays : ReplayLoadDone(i)
  \/ \E i \in DOMAIN replays : ReplayHistoryDone(i)
  \/ /\ InputsTaken < MaxEvents
     /\ \E g \in Gens : ProviderClose(g)
  \/ /\ InputsTaken < MaxEvents
     /\ \E g \in Gens : \E payload \in CleanupUpstreamInputs(gens[g].prov) :
          UpstreamMessage(g, payload)
  \/ /\ InputsTaken < MaxEvents
     /\ \E g \in Gens : \E latency \in PongLatencies : Pong(g, latency)
  \/ PipelineCleanup

SpecCleanup == Init /\ [][NextCleanup]_vars

(* C13: once cleanup has been called on a provider connection, whatever    *)
(* the state of its socket was, the connection keeps its socket and never  *)
(* opens it or another one, emits no event, fires neither the connection   *)
(* callback nor the stats callback, and nothing more is written to its     *)
(* socket.                                                                 *)
C13_InertAfterCleanup ==
  [][ \A g \in DOMAIN gens :
        gens[g].selfClosing =>
          /\ gens'[g].sock = gens[g].sock
          /\ gens'[g].readyState = gens[g].readyState
          /\ gens'[g].readyState # "OPEN"
          /\ EventsOf(received', g) = EventsOf(received, g)
          /\ EventsOf(downstream', g) = EventsOf(downstream, g)
          /\ { i \in DOMAIN replays' : replays'[i].sock = gens[g].sock }
               = { i \in DOMAIN replays : replays[i].sock = gens[g].sock }
          /\ \A k \in (Len(upstream) + 1)..Len(upstream') :
               upstream'[k].sock # gens[g].sock
          /\ nStats' # nStats =>
               \E h \in DOMAIN gens :
                 ~gens[h].selfClosing /\ gens[h].prov = Get(lastStats').provider ]_vars

(* a connection cleaned up by a swap while open, after it had emitted an   *)
(* event, and its successor cleaned up by Pipeline.cleanup while still     *)
(* connecting; a client event has been received as well                    *)
C13_Witness ==
  /\ Len(gens) = 2
  /\ gens[1].selfClosing /\ gens[2].selfClosing
  /\ gens[2].sock = 2
  /\ ConnectedCalls(2) = {}
  /\ cleanedUp
  /\ Len(received) > 0
  /\ nClient > 0

(***************************************************************************)
(* The Checkpointer and the conversation log: transcript deltas from the   *)
(* provider, flushes, checkpoint markers, un-awaited appends, swaps and    *)
(* Pipeline.cleanup                                                        *)
(***************************************************************************)
Chars(n) == [i \in 1..n |-> "x"]
Hello == <<"h", "e", "l", "l", "o">>

(* agent deltas of 5, 1, BUFFER_SIZE_LIMIT - 1 and BUFFER_SIZE_LIMIT + 1   *)
(* characters and a user delta of 2                                        *)
CheckpointInputs(prov) ==
  IF prov = OPENAI
  THEN { [type |-> "response.audio_transcript.delta", delta |-> d] :
           d \in { Hello, <<"!">>, Chars(BUFFER_SIZE_LIMIT - 1),
                   Chars(BUFFER_SIZE_LIMIT + 1) } }
       \cup { [type |-> "conversation.item.input_audio_transcription.delta",
               delta |-> <<"y", "o">>] }
  ELSE { [serverContent |-> [outputTranscription |-> [text |-> d]]] :
           d \in { Hello, <<"!">>, Chars(BUFFER_SIZE_LIMIT - 1),
                   Chars(BUFFER_SIZE_LIMIT + 1) } }
       \cup { [serverContent |-> [inputTranscription |-> [text |-> <<"y", "o">>]]] }

(* Checkpoint.createCheckpoint called on the session's checkpointer *)
CreateCheckpoint ==
  /\ ~cleanedUp
  /\ Len(pendingAppends) < MaxAppends
  /\ LET r == createCheckpoint(checkpoint)
     IN  /\ checkpoint' = r.ck
         /\ pendingAppends' = pendingAppends \o r.appends
         /\ sinceFlush' = <<>>
  /\ UNCHANGED ipcVars /\ UNCHANGED << apiStyle, failures, trips, cleanups, emits, cleanedUp, landed, provider, geminiKey, consecutiveFailures,
                  sessionConfiguration, smSubscribers, gens, cur, nextSock, upstream,
                  downstream, received, conversationsFile, sessionsFile, pendingWrites,
                  initLoad, replays, updates, reloaded, lastClient, swaps, nClient,
                  nUpstream >>
  /\ UNCHANGED switchVars

(* an append handed to persistence reaches the log; the appends are not    *)
(* awaited, so any of those in flight may be the next to complete          *)
ApplyAppend(k) ==
  /\ k \in DOMAIN pendingAppends
  /\ k \notin Range(landed)
  /\ \A f \in DOMAIN failures : failures[f] # [op |-> "append", k |-> k, at |-> failures[f].at]
  /\ conversationsFile' = appendFile(conversationsFile, pendingAppends[k])
  /\ landed' = Append(landed, k)
  /\ UNCHANGED ipcVars /\ UNCHANGED << apiStyle, failures, trips, cleanups, emits, sinceFlush, cleanedUp, provider, geminiKey, consecutiveFailures,
                  sessionConfiguration, smSubscribers, gens, cur, nextSock, upstream,
                  downstream, received, checkpoint, pendingAppends, sessionsFile,
                  pendingWrites, initLoad, replays, updates, reloaded, lastClient, swaps,
                  nClient, nUpstream >>
  /\ UNCHANGED switchVars

NextCheckpoint ==
  \/ \E g \in Gens : ProviderOpen(g)
  \/ /\ InputsTaken < MaxCheckpointEvents
     /\ \E g \in Gens : \E payload \in CheckpointInputs(gens[g].prov) :
          UpstreamMessage(g, payload)
  \/ /\ InputsTaken < MaxCheckpointEvents
     /\ \E g \in Gens : \E latency \in PongLatencies : Pong(g, latency)
  \/ CreateCheckpoint
  \/ \E k \in DOMAIN pendingAppends : ApplyAppend(k)
  \/ PipelineCleanup

SpecCheckpoint == Init /\ [][NextCheckpoint]_vars

(* what the claims call the serialised form of a run of <<kind, text>>     *)
(* entries: the first entry and every entry whose kind differs from the    *)
(* one before it open with "kind:", the latter after one newline           *)
RECURSIVE Serialise(_)
Serialise(ds) ==
  IF Len(ds) = 0 THEN <<>>
  ELSE LET n == Len(ds)
           d == ds[n]
           lead == IF n = 1 THEN <<d[1], ":">>
                   ELSE IF ds[n - 1][1] = d[1] THEN <<>>
                   ELSE <<"\n", d[1], ":">>
       IN  Serialise(SubSeq(ds, 1, n - 1)) \o lead \o d[2]

RECURSIVE TotalChars(_)
TotalChars(ds) == IF Len(ds) = 0 THEN 0 ELSE Len(Head(ds)[2]) + TotalChars(Tail(ds))

(* C14: between two flushes the transcript buffer, joined, is the          *)
(* serialised form of the deltas saved since the last flush: same-kind     *)
(* neighbours concatenated with nothing between them, each kind change one *)
(* newline and a fresh "kind:" prefix, no newline before the first prefix. *)
C14_BufferSerialisation ==
  Flatten(checkpoint.currentContentBuffer) = Serialise(sinceFlush)

(* an agent delta "hello" and then a user delta are buffered *)
C14_Witness ==
  /\ sinceFlush = << <<"agent", Hello>>, <<"user", <<"y", "o">> >> >>
  /\ Flatten(checkpoint.currentContentBuffer)
       = <<"agent", ":", "h", "e", "l", "l", "o", "\n", "user", ":", "y", "o">>

(* the kinds an entry of the log can have, and the log the appends make    *)
(* when read in the order the flushes were started                         *)
Kinds == {"user", "agent", "agent_checkpoint"}
AppendedLog == Flatten(pendingAppends)
PrefixAt(log, k) == k < Len(log) /\ log[k] \in Kinds /\ log[k + 1] = ":"

(* C15: the log made of all the appends consists of "kind:text" lines: a   *)
(* "kind:" prefix stands only at the start of the log or right after a     *)
(* newline, and two prefixes that follow each other name different kinds.  *)
C15_LogLines ==
  LET log == AppendedLog
  IN  /\ Len(log) > 0 => PrefixAt(log, 1)
      /\ \A k \in 2..Len(log) : PrefixAt(log, k) => log[k - 1] = "\n"
      /\ \A j, k \in 1..Len(log) :
           (/\ j < k /\ PrefixAt(log, j) /\ PrefixAt(log, k)
            /\ \A m \in (j + 1)..(k - 1) : ~PrefixAt(log, m))
             => log[j] # log[k]

(* C16: agent deltas totalling fewer than BUFFER_SIZE_LIMIT characters     *)
(* since the last flush schedule no append, and the delta that brings the  *)
(* total to BUFFER_SIZE_LIMIT schedules the append of all of them: the     *)
(* buffer never holds BUFFER_SIZE_LIMIT characters of deltas.              *)
C16_FlushAtLimit ==
  TotalChars(sinceFlush) < BUFFER_SIZE_LIMIT

(* the text of the log, empty when the file does not exist *)
LogText(file) == IF IsSome(file) THEN Get(file) ELSE <<>>
IsPrefixOf(a, b) == Len(a) <= Len(b) /\ SubSeq(b, 1, Len(a)) = a

(* C17: every step leaves the persisted conversation log with its former   *)
(* content as a prefix of its new content.                                 *)
C17_LogOnlyGrows ==
  [][ IsPrefixOf(LogText(conversationsFile), LogText(conversationsFile')) ]_vars

(* two appends have reached the log, a swap has taken place and the        *)
(* pipeline has been cleaned up                                            *)
C17_Witness ==
  /\ Len(landed) = 2
  /\ Len(swaps) = 1
  /\ cleanedUp
  /\ Len(LogText(conversationsFile))
       = Len(pendingAppends[landed[1]]) + Len(pendingAppends[landed[2]])

(* C18: the appends reach the log in the order their flushes were started. *)
C18_FlushOrder ==
  \A i, j \in DOMAIN landed : i < j => landed[i] < landed[j]

(***************************************************************************)
(* Session updates of a style-B session that starts with nothing          *)
(* persisted: setup messages handed to the SessionManager                  *)
(***************************************************************************)
InitSetupMerge ==
  /\ Init
  /\ apiStyle = GEMINI

SpecSetupMerge == InitSetupMerge /\ [][NextMerge]_vars

SetupOf(payload) == IF Has(payload, "setup") THEN payload.setup ELSE <<>>

(* a setup message has just been received while a config was stored *)
SetupMergedNow ==
  /\ apiStyle = GEMINI
  /\ IsSome(sessionConfiguration)
  /\ nClient' = nClient + 1
  /\ IsSome(lastClient')
  /\ Has(Get(lastClient').payload, "setup")

(* C19: for a style-B session, a setup message that arrives when a config  *)
(* is already stored is shallow-merged into the stored payload.setup: the  *)
(* top-level setup fields only the earlier config has stay in the stored   *)
(* config, and the fields the update names take the update's values.       *)
C19_SetupShallowMerge ==
  [][ SetupMergedNow =>
        LET earlier == SetupOf(Get(sessionConfiguration).payload)
            named   == Get(lastClient').payload.setup
            stored  == SetupOf(Get(sessionConfiguration').payload)
        IN  /\ IsSome(sessionConfiguration')
            /\ \A k \in DOMAIN earlier \ DOMAIN named :
                 k \in DOMAIN stored /\ stored[k] = earlier[k]
            /\ \A k \in DOMAIN named :
                 k \in DOMAIN stored /\ stored[k] = named[k] ]_vars

(* the half of C19 the code keeps: the fields the update names are stored  *)
(* with the update's values                                                *)
C19_NamedFieldsReplace ==
  [][ SetupMergedNow =>
        LET named  == Get(lastClient').payload.setup
            stored == SetupOf(Get(sessionConfiguration').payload)
        IN  \A k \in DOMAIN named : k \in DOMAIN stored /\ stored[k] = named[k] ]_vars

(* a setup naming only tools has replaced a stored setup with a model and  *)
(* a system instruction: the stored setup has lost both                    *)
C19_Lost ==
  /\ apiStyle = GEMINI
  /\ Len(updates) = 2
  /\ ~reloaded
  /\ IsSome(sessionConfiguration)
  /\ Has(Get(sessionConfiguration).payload, "setup")
  /\ DOMAIN Get(sessionConfiguration).payload.setup = {"tools"}
  /\ Has(Get(sessionConfiguration).payload, "session")

(***************************************************************************)
(* A connection that names a session id under which a config has been      *)
(* persisted before, by a connection of either client style                *)
(***************************************************************************)
InitResume ==
  /\ InitPipelineWith({ Some(JSONstringify(c)) :
                          c \in PersistedConfigs(OPENAI) \cup PersistedConfigs(GEMINI) })
  /\ consecutiveFailures = SWITCH_FAILURE_COUNT
  /\ InitSwitchState
  /\ geminiKey
  /\ conversationsFile = None

NextResume ==
  \/ /\ InputsTaken < MaxResumeEvents
     /\ \E payload \in CleanupClientInputs(apiStyle) : ReceiveEvent(payload, MaxResumeEvents)
  \/ \E c \in pendingWrites : ApplyWrite(c)
  \/ InitLoadDone
  \/ \E g \in Gens : ProviderOpen(g)
  \/ \E i \in DOMAIN replays : ReplayLoadDone(i)
  \/ \E i \in DOMAIN replays : ReplayHistoryDone(i)
  \/ /\ InputsTaken < MaxResumeEvents
     /\ \E g \in Gens : ProviderClose(g)

SpecResume == InitResume /\ [][NextResume]_vars

(* C20: whenever the SessionManager holds a config (captured from a        *)
(* session update, produced by a merge, or loaded from persistence at      *)
(* session start or before a replay), that config's src is the session's   *)
(* client style.                                                           *)
C20_ConfigSrcIsStyle ==
  IsSome(sessionConfiguration) => Get(sessionConfiguration).src = apiStyle

(* the part of C20 the code keeps: a config that no load has replaced      *)
(* carries the client style                                                *)
C20_CapturedSrcIsStyle ==
  (IsSome(sessionConfiguration) /\ ~reloaded) => Get(sessionConfiguration).src = apiStyle

(* a style-A session holds the config a style-B connection persisted *)
C20_Foreign ==
  /\ apiStyle = OPENAI
  /\ reloaded
  /\ IsSome(sessionConfiguration)
  /\ Get(sessionConfiguration).src = GEMINI

(***************************************************************************)
(* getSessionConfiguration on a session that resumes: a config persisted   *)
(* with or without an instructions field, a transcript persisted or not    *)
(***************************************************************************)
EnrichConfigs(style) ==
  IF style = OPENAI
  THEN { [src |-> OPENAI, payload |-> OAISessionUpdate([instructions |-> Instr("p")])],
         [src |-> OPENAI, payload |-> OAISessionUpdate([voice |-> "a"])] }
  ELSE { [src |-> GEMINI,
          payload |-> GeminiSetup([systemInstruction |-> [parts |-> << [text |-> Instr("p")] >>]])],
         [src |-> GEMINI, payload |-> GeminiSetup([model |-> "m"])] }

InitEnrich ==
  /\ InitPipelineWith({None} \cup { Some(JSONstringify(c)) : c \in EnrichConfigs(apiStyle) })
  /\ consecutiveFailures = SWITCH_FAILURE_COUNT
  /\ InitSwitchState
  /\ geminiKey

NextEnrich ==
  \/ /\ InputsTaken < MaxEnrichEvents
     /\ \E payload \in CleanupClientInputs(apiStyle) : ReceiveEvent(payload, MaxEnrichEvents)
  \/ \E c \in pendingWrites : ApplyWrite(c)
  \/ InitLoadDone
  \/ \E g \in Gens : ProviderOpen(g)
  \/ \E i \in DOMAIN replays : ReplayLoadDone(i)
  \/ \E i \in DOMAIN replays : ReplayHistoryDone(i)
  \/ /\ InputsTaken < MaxEnrichEvents
     /\ \E g \in Gens : ProviderClose(g)

SpecEnrich == InitEnrich /\ [][NextEnrich]_vars

(* the instructions field of a config of the given style, if it has one *)
HasInstructions(style, cfg) ==
  IF style = OPENAI
  THEN Has(cfg.payload, "session") /\ Has(cfg.payload.session, "instructions")
  ELSE /\ Has(cfg.payload, "setup") /\ Has(cfg.payload.setup, "systemInstruction")
       /\ Has(cfg.payload.setup.systemInstruction, "parts")
       /\ Len(cfg.payload.setup.systemInstruction.parts) > 0
       /\ Has(cfg.payload.setup.systemInstruction.parts[1], "text")

InstructionsOf(style, cfg) ==
  IF ~HasInstructions(style, cfg) THEN <<>>
  ELSE IF style = OPENAI THEN cfg.payload.session.instructions
  ELSE cfg.payload.setup.systemInstruction.parts[1].text

(* replay i has just returned from getSessionConfiguration with a config *)
ReturnedConfig(i) == replays[i].stage = "history" /\ replays'[i].stage = "done"
(* replay i has just returned from getSessionConfiguration with null *)
ReturnedNull(i) == replays[i].stage = "load" /\ replays'[i].stage = "done"
(* replay i has just found a config and gone on to read the transcript *)
PastNullCheck(i) == replays[i].stage = "load" /\ replays'[i].stage = "history"

(* C21: getSessionConfiguration returns null when no config is stored or   *)
(* persisted; returns the stored config unmodified when the session has no *)
(* transcript; and otherwise returns a config whose instructions field     *)
(* (payload.session.instructions, or                                       *)
(* payload.setup.systemInstruction.parts[0].text) is the stored            *)
(* instructions followed by the fixed sentence and the persisted           *)
(* transcript.                                                             *)
C21_GetForReplay ==
  [][ \A i \in DOMAIN replays :
        /\ ReturnedNull(i) =>
             /\ ~IsSome(sessionConfiguration) /\ ~IsSome(sessionsFile)
             /\ ~IsSome(replays'[i].fed)
        /\ PastNullCheck(i) => (IsSome(sessionConfiguration) \/ IsSome(sessionsFile))
        /\ ReturnedConfig(i) =>
             LET cfg == Get(sessionConfiguration)
             IN  /\ IsSome(replays'[i].fed)
                 /\ IF ~IsSome(conversationsFile)
                    THEN Get(replays'[i].fed) = cfg
                    ELSE LET ret == Get(replays'[i].fed)
                         IN  /\ HasInstructions(apiStyle, ret)
                             /\ InstructionsOf(apiStyle, ret) =
                                  InstructionsOf(apiStyle, cfg)
                                    \o ContextPrompt(Get(conversationsFile)) ]_vars

(* the parts of C21 the code keeps: null exactly when nothing is stored or *)
(* persisted, the stored config itself when there is no transcript, and,   *)
(* when the stored config has an instructions field (style A: a session),  *)
(* that field followed by the fixed sentence and the trimmed transcript    *)
C21_GetForReplayTrimmed ==
  [][ \A i \in DOMAIN replays :
        /\ ReturnedNull(i) =>
             /\ ~IsSome(sessionConfiguration) /\ ~IsSome(sessionsFile)
             /\ ~IsSome(replays'[i].fed)
        /\ PastNullCheck(i) => (IsSome(sessionConfiguration) \/ IsSome(sessionsFile))
        /\ ReturnedConfig(i) =>
             LET cfg == Get(sessionConfiguration)
                 appended == IF apiStyle = OPENAI THEN Has(cfg.payload, "session")
                             ELSE HasInstructions(apiStyle, cfg)
             IN  /\ IsSome(replays'[i].fed)
                 /\ IF ~IsSome(conversationsFile) \/ ~appended
                    THEN Get(replays'[i].fed) = cfg
                    ELSE LET ret == Get(replays'[i].fed)
                         IN  /\ HasInstructions(apiStyle, ret)
                             /\ InstructionsOf(apiStyle, ret) =
                                  InstructionsOf(apiStyle, cfg)
                                    \o ContextPrompt(trim(Get(conversationsFile))) ]_vars

(* a style-B replay over a persisted transcript has returned a stored      *)
(* setup that names no system instruction, and the returned config has no  *)
(* instructions field                                                      *)
C21_NoInstructions ==
  /\ apiStyle = GEMINI
  /\ IsSome(conversationsFile)
  /\ Len(replays) > 0
  /\ replays[1].stage = "done"
  /\ IsSome(replays[1].fed)
  /\ ~HasInstructions(GEMINI, Get(replays[1].fed))

(***************************************************************************)
(* The cross-style translators on their own: an event in style X handed to *)
(* the X -> Y translator, and what it emitted handed to the Y -> X one     *)
(***************************************************************************)
OAIToolCallDone(arguments) ==
  [type |-> "response.output_item.done",
   item |-> [type |-> "function_call", call_id |-> "c1", name |-> "f",
             arguments |-> arguments]]

ClientEvents(x) ==
  IF x = OPENAI
  THEN { OAIAudioAppend,
         [type |-> "input_audio_buffer.append", audio |-> ""],
         OAISessionUpdate([instructions |-> Instr("i"), tools |-> << OAIToolDef >>]),
         OAIFunctionCallOutput }
  ELSE { GeminiRealtimeInput,
         [realtimeInput |-> [audioStreamEnd |-> TRUE]],
         GeminiSetup([systemInstruction |-> [parts |-> << [text |-> Instr("i")] >>],
                      tools |-> << GeminiToolDef >>]),
         GeminiToolResponses,
         [toolResponse |-> [functionResponses |-> <<>>]] }

ServerEvents(x) ==
  IF x = OPENAI
  THEN { [type |-> "conversation.item.input_audio_transcription.delta", delta |-> <<"y", "o">>],
         [type |-> "response.audio_transcript.delta", delta |-> <<"h", "e">>],
         [type |-> "response.audio_transcript.delta", delta |-> <<>>],
         [type |-> "response.audio.delta", delta |-> <<"pcm">>],
         OAIToolCallDone(JSONstringify([x |-> "v"])),
         OAIToolCallDone([text |-> "{"]),
         [type |-> "response.done", response |-> [status |-> "completed"]],
         [type |-> "response.done", response |-> [status |-> "cancelled"]] }
  ELSE { [serverContent |-> [inputTranscription |-> [text |-> <<"y", "o">>]]],
         [serverContent |-> [inputTranscription |-> [text |-> <<>>]]],
         [serverContent |-> [outputTranscription |-> [text |-> <<"h", "e">>]]],
         [serverContent |-> [modelTurn |-> [parts |-> << [inlineData |-> [data |-> <<"pcm">>]] >>]]],
         [serverContent |-> [modelTurn |-> [parts |-> << [text |-> <<"t">>] >>]]],
         [toolCall |-> [functionCalls |-> << [id |-> "c1", name |-> "f", args |-> [x |-> "v"]] >>]],
         [toolCall |-> [functionCalls |-> <<>>]],
         [serverContent |-> [generationComplete |-> TRUE]],
         [serverContent |-> [interrupted |-> TRUE]] }

(* the callback the style-x extractor of the given side dispatches to *)
Classify(side, x, payload) ==
  IF side = "client" THEN ClientExtract(x, payload) ELSE ServerExtract(x, payload)

(* the x -> other translator of the given side (a fresh one), applied to ev *)
Translated(side, x, ev) ==
  IF side = "client" THEN ClientTransform(x, getOtherProvider(x), ev)
  ELSE ServerTransform(x, getOtherProvider(x), None, ev)

(* an event in style x is handed to the x -> y translator *)
Translate(side, x, payload) ==
  /\ Len(trips) < MaxTrips
  /\ \A i \in DOMAIN trips : trips[i].done
  /\ Classify(side, x, payload) # "none"
  /\ LET ev == [src |-> x, payload |-> payload]
     IN  trips' = Append(trips, [side |-> side, x |-> x, ev |-> ev,
                                 out |-> Translated(side, x, ev),
                                 back |-> <<>>, done |-> FALSE])
  /\ UNCHANGED ipcVars /\ UNCHANGED << apiStyle, failures, cleanups, emits, provider, geminiKey, consecutiveFailures,
                  sessionConfiguration, smSubscribers, gens, cur, nextSock, upstream,
                  downstream, received, checkpoint, pendingAppends, conversationsFile,
                  sessionsFile, pendingWrites, initLoad, replays, updates, reloaded,
                  lastClient, swaps, cleanedUp, landed, sinceFlush, nClient, nUpstream >>
  /\ UNCHANGED switchVars

(* the events it emitted are handed, in order, to the y -> x translator *)
TranslateBack(i) ==
  /\ i \in DOMAIN trips
  /\ ~trips[i].done
  /\ LET t == trips[i]
         y == getOtherProvider(t.x)
     IN  trips' = [trips EXCEPT
                     ![i].back = Flatten([k \in 1..Len(t.out) |->
                                            Translated(t.side, y, t.out[k])]),
                     ![i].done = TRUE]
  /\ UNCHANGED ipcVars /\ UNCHANGED << apiStyle, failures, cleanups, emits, provider, geminiKey, consecutiveFailures,
                  sessionConfiguration, smSubscribers, gens, cur, nextSock, upstream,
                  downstream, received, checkpoint, pendingAppends, conversationsFile,
                  sessionsFile, pendingWrites, initLoad, replays, updates, reloaded,
                  lastClient, swaps, cleanedUp, landed, sinceFlush, nClient, nUpstream >>
  /\ UNCHANGED switchVars

InitRoundTrip ==
  /\ Init
  /\ apiStyle = OPENAI
  /\ provider = GEMINI

NextRoundTrip ==
  \/ \E x \in Providers : \E payload \in ClientEvents(x) : Translate("client", x, payload)
  \/ \E x \in Providers : \E payload \in ServerEvents(x) : Translate("server", x, payload)
  \/ \E i \in DOMAIN trips : TranslateBack(i)

SpecRoundTrip == InitRoundTrip /\ [][NextRoundTrip]_vars

(* some event of a sequence is dispatched to the given callback *)
SomeDispatchedTo(side, x, evs, callback) ==
  \E k \in DOMAIN evs : Classify(side, x, evs[k].payload) = callback

(* C22 as stated: for each semantic event emitted in style X, translating   *)
(* X to Y and then Y back to X yields an event that the style-X extractor  *)
(* dispatches to the same semantic callback as the original.               *)
C22_RoundTrip ==
  \A i \in DOMAIN trips :
    trips[i].done =>
      SomeDispatchedTo(trips[i].side, trips[i].x, trips[i].back,
                       Classify(trips[i].side, trips[i].x, trips[i].ev.payload))

(* the event carries a value in the field the mapping table lists for it:  *)
(* audio data, a delta or text, an inline-data part, a function call or a  *)
(* function response; a style-A tool call's arguments are JSON text        *)
CarriesData(side, x, p) ==
  LET kind == Classify(side, x, p)
  IN  CASE kind = "userAudio" ->
             IF x = OPENAI THEN Has(p, "audio") /\ p.audio # ""
             ELSE /\ Has(p.realtimeInput, "audio") /\ Has(p.realtimeInput.audio, "data")
                  /\ p.realtimeInput.audio.data # ""
        [] kind = "toolResponse" ->
             x = GEMINI => /\ Has(p.toolResponse, "functionResponses")
                           /\ Len(p.toolResponse.functionResponses) > 0
        [] kind = "userTranscript" ->
             IF x = OPENAI THEN Has(p, "delta") /\ Len(p.delta) > 0
             ELSE /\ Has(p.serverContent.inputTranscription, "text")
                  /\ Len(p.serverContent.inputTranscription.text) > 0
        [] kind = "responseTranscript" ->
             IF x = OPENAI THEN Has(p, "delta") /\ Len(p.delta) > 0
             ELSE /\ Has(p.serverContent.outputTranscription, "text")
                  /\ Len(p.serverContent.outputTranscription.text) > 0
        [] kind = "responseAudio" ->
             IF x = OPENAI THEN Has(p, "delta") /\ Len(p.delta) > 0
             ELSE /\ Has(p.serverContent.modelTurn, "parts")
                  /\ \E k \in DOMAIN p.serverContent.modelTurn.parts :
                       LET part == p.serverContent.modelTurn.parts[k]
                       IN  /\ Has(part, "inlineData") /\ Has(part.inlineData, "data")
                           /\ Len(part.inlineData.data) > 0
        [] kind = "toolCall" ->
             IF x = OPENAI
             THEN Has(p.item, "arguments") => Has(p.item.arguments, "json")
             ELSE /\ Has(p.toolCall, "functionCalls")
                  /\ Len(p.toolCall.functionCalls) > 0
        [] OTHER -> TRUE

(* C22, amended: for each semantic event emitted in style X that carries a *)
(* value in the field the mapping table lists for it, translating X to Y   *)
(* and then Y back to X yields an event that the style-X extractor         *)
(* dispatches to the same semantic callback as the original.               *)
C22_RoundTripOfData ==
  \A i \in DOMAIN trips :
    (trips[i].done /\ CarriesData(trips[i].side, trips[i].x, trips[i].ev.payload)) =>
      SomeDispatchedTo(trips[i].side, trips[i].x, trips[i].back,
                       Classify(trips[i].side, trips[i].x, trips[i].ev.payload))

(* a style-B tool response with two function responses has come back as    *)
(* two style-B tool responses, and a style-A turn boundary as one          *)
C22_Witness ==
  /\ Len(trips) = 2
  /\ trips[1].done /\ trips[2].done
  /\ trips[1].ev.payload = GeminiToolResponses
  /\ Len(trips[1].out) = 3
  /\ Len(trips[1].back) = 2
  /\ trips[2].side = "server" /\ trips[2].x = OPENAI
  /\ Classify("server", OPENAI, trips[2].ev.payload) = "turn"
  /\ Len(trips[2].out) = 2
  /\ Len(trips[2].back) = 1

(***************************************************************************)
(* cleanup() called more than once: on the Pipeline, and on the components *)
(* a swap or the Pipeline has cleaned up                                   *)
(***************************************************************************)
NextCleanupTwice ==
  \/ /\ InputsTaken < MaxCleanupEvents
     /\ \E payload \in CleanupClientInputs(apiStyle) : ReceiveEvent(payload, MaxCleanupEvents)
  \/ \E g \in Gens : ProviderOpen(g)
  \/ \E i \in DOMAIN replays : ReplayLoadDone(i)
  \/ \E i \in DOMAIN replays : ReplayHistoryDone(i)
  \/ /\ InputsTaken < MaxCleanupEvents
     /\ \E g \in Gens : \E payload \in CleanupUpstreamInputs(gens[g].prov) :
          UpstreamMessage(g, payload)
  \/ /\ InputsTaken < MaxCleanupEvents
     /\ \E g \in Gens : \E latency \in PongLatencies : Pong(g, latency)
  \/ PipelineCleanup
  \/ PipelineCleanupAgain
  \/ \E g \in Gens : ProviderCleanupAgain(g)
  \/ SessionManagerCleanupAgain

SpecCleanupTwice == Init /\ [][NextCleanupTwice]_vars

(* cleanup() has just been called on an object it had been called on before *)
CalledAgain ==
  /\ Len(cleanups') = Len(cleanups) + 1
  /\ LET target == cleanups'[Len(cleanups')]
     IN  IF target[1] = "provider" THEN gens[target[2]].selfClosing ELSE cleanedUp

RECURSIVE forEachReceive(_, _)
forEachReceive(subs, raising) ==
  IF Len(subs) = 0 THEN [called |-> <<>>, thrown |-> FALSE]
  ELSE IF Head(subs) \in raising THEN [called |-> << Head(subs) >>, thrown |-> TRUE]
  ELSE LET rest == forEachReceive(Tail(subs), raising)
       IN  [called |-> << Head(subs) >> \o rest.called, thrown |-> rest.thrown]

EmitEvents == { [type |-> "response.audio_transcript.delta", delta |-> <<"h", "e">>],
                [type |-> "response.done"] }

EmitEvent(n, payload, raising) ==
  /\ Len(emits) < MaxEmits
  /\ LET subs == [i \in 1..n |-> i]
         r == forEachReceive(subs, raising)
     IN  emits' = Append(emits, [subscribers |-> subs, ev |-> payload, raising |-> raising,
                                 called |-> r.called, thrown |-> r.thrown])
  /\ UNCHANGED ipcVars /\ UNCHANGED << apiStyle, failures, trips, cleanups, provider, geminiKey, consecutiveFailures,
                  sessionConfiguration, smSubscribers, gens, cur, nextSock, upstream,
                  downstream, received, checkpoint, pendingAppends, conversationsFile,
                  sessionsFile, pendingWrites, initLoad, replays, updates, reloaded,
                  lastClient, swaps, cleanedUp, landed, sinceFlush, nClient, nUpstream >>
  /\ UNCHANGED switchVars

NextEmit ==
  \E n \in 1..MaxSubscribers : \E payload \in EmitEvents : \E raising \in SUBSET (1..n) :
    EmitEvent(n, payload, raising)

SpecEmit == InitRoundTrip /\ [][NextEmit]_vars

(* C24: if a subscriber's receiveEvent raises during emitEvent, every      *)
(* later subscriber in the subscription list still receives that event,    *)
(* and the error does not propagate to the caller of emitEvent.            *)
C24_EmitIsolatesSubscribers ==
  \A i \in DOMAIN emits :
    LET e == emits[i]
    IN  /\ \A k \in DOMAIN e.subscribers :
             e.subscribers[k] \in e.raising =>
               \A j \in DOMAIN e.subscribers :
                 j > k => \E c \in DOMAIN e.called : e.called[c] = e.subscribers[j]
        /\ ~e.thrown

(* what emitEvent does keep: the subscribers up to the first one that      *)
(* raises are called once each, in subscription order, and with no         *)
(* subscriber raising all are called and nothing is thrown                 *)
C24_EmitInOrder ==
  \A i \in DOMAIN emits :
    LET e == emits[i]
    IN  /\ \A c \in DOMAIN e.called : e.called[c] = e.subscribers[c]
        /\ e.raising = {} => (e.called = e.subscribers /\ ~e.thrown)

(* the first of two subscribers raised: the second was never called and    *)
(* emitEvent threw                                                         *)
C24_Skipped ==
  /\ Len(emits) = 1
  /\ emits[1].subscribers = <<1, 2>>
  /\ emits[1].raising = {1}
  /\ emits[1].called = <<1>>
  /\ emits[1].thrown

(***************************************************************************)
(* Persistence operations that fail                                        *)
(***************************************************************************)
Failed(op, k) == Append(failures, [op |-> op, k |-> k, at |-> nClient + nUpstream])

(* a variant whose handler puts the lost content back into the buffer *)
appendRejected_restores(ck, content) ==
  [ck EXCEPT !.currentContentBuffer = << content >> \o @,
             !.currentContentLength = Len(content) + @]

(* the .catch handler of the append flushBuffer started: it logs, the      *)
(* buffer stays as it is                                                   *)
appendRejected(ck, content) == ck

(* persistence.append rejects: the content never reaches the log *)
AppendFails(k) ==
  /\ Len(failures) < MaxFailures
  /\ k \in DOMAIN pendingAppends
  /\ k \notin Range(landed)
  /\ \A f \in DOMAIN failures : failures[f] # [op |-> "append", k |-> k, at |-> failures[f].at]
  /\ failures' = Failed("append", k)
  /\ checkpoint' = appendRejected(checkpoint, pendingAppends[k])
  /\ UNCHANGED ipcVars /\ UNCHANGED << apiStyle, trips, cleanups, emits, sinceFlush, cleanedUp, landed, provider,
                  geminiKey, consecutiveFailures, sessionConfiguration, smSubscribers,
                  gens, cur, nextSock, upstream, downstream, received, pendingAppends,
                  conversationsFile, sessionsFile, pendingWrites, initLoad, replays,
                  updates, reloaded, lastClient, swaps, nClient, nUpstream >>
  /\ UNCHANGED switchVars

(* sessionPersistence.overwrite rejects: saveSessionConfiguration rejects  *)
(* and createCheckpoint's .catch logs it                                   *)
WriteFails(c) ==
  /\ Len(failures) < MaxFailures
  /\ c \in pendingWrites
  /\ pendingWrites' = pendingWrites \ {c}
  /\ failures' = Failed("overwrite", 0)
  /\ UNCHANGED ipcVars /\ UNCHANGED << apiStyle, trips, cleanups, emits, sinceFlush, cleanedUp, landed, provider,
                  geminiKey, consecutiveFailures, sessionConfiguration, smSubscribers,
                  gens, cur, nextSock, upstream, downstream, received, checkpoint,
                  pendingAppends, conversationsFile, sessionsFile, initLoad, replays,
                  updates, reloaded, lastClient, swaps, nClient, nUpstream >>
  /\ UNCHANGED switchVars

(* the read of the load the constructor started rejects: the catch in      *)
(* loadSessionConfiguration logs it                                        *)
InitLoadFails ==
  /\ Len(failures) < MaxFailures
  /\ initLoad
  /\ initLoad' = FALSE
  /\ failures' = Failed("read", 0)
  /\ UNCHANGED ipcVars /\ UNCHANGED << apiStyle, trips, cleanups, emits, sinceFlush, cleanedUp, landed, provider,
                  geminiKey, consecutiveFailures, sessionConfiguration, smSubscribers,
                  gens, cur, nextSock, upstream, downstream, received, checkpoint,
                  pendingAppends, conversationsFile, sessionsFile, pendingWrites, replays,
                  updates, reloaded, lastClient, swaps, nClient, nUpstream >>
  /\ UNCHANGED switchVars

(* getSessionConfiguration up to its null check when the config read       *)
(* rejects: the config in memory is kept                                   *)
ReplayLoadFails(i) ==
  /\ Len(failures) < MaxFailures
  /\ i \in DOMAIN replays
  /\ replays[i].stage = "load"
  /\ replays' = [replays EXCEPT
                   ![i].stage = IF IsSome(sessionConfiguration) THEN "history" ELSE "done",
                   ![i].held = IsSome(sessionConfiguration)]
  /\ failures' = Failed("read", i)
  /\ UNCHANGED ipcVars /\ UNCHANGED << apiStyle, trips, cleanups, emits, sinceFlush, cleanedUp, landed, provider,
                  geminiKey, consecutiveFailures, sessionConfiguration, smSubscribers,
                  gens, cur, nextSock, upstream, downstream, received, checkpoint,
                  pendingAppends, conversationsFile, sessionsFile, pendingWrites, initLoad,
                  updates, reloaded, lastClient, swaps, nClient, nUpstream >>
  /\ UNCHANGED switchVars

(* the rest of getSessionConfiguration and of onProviderConnected when the *)
(* history read rejects: loadConversationHistory returns null              *)
ReplayHistoryFails(i) ==
  /\ Len(failures) < MaxFailures
  /\ i \in DOMAIN replays
  /\ replays[i].stage = "history"
  /\ LET sessionConfig == getSessionConfiguration(apiStyle, sessionConfiguration, None)
         feed == /\ IsSome(sessionConfig) /\ Get(sessionConfig).src = apiStyle
                 /\ ~cleanedUp
     IN  /\ replays' = [replays EXCEPT ![i].stage = "done",
                                       ![i].fed = IF feed THEN sessionConfig ELSE None,
                                       ![i].raised = replayRaises(apiStyle, sessionConfiguration,
                                                                  None, cleanedUp)]
         /\ upstream' = IF feed THEN upstream \o ClientWrites(cur, Get(sessionConfig), TRUE)
                        ELSE upstream
         /\ gens' = IF feed THEN MarkFirst(gens, {cur}, Get(sessionConfig), TRUE) ELSE gens
  /\ failures' = Failed("history", i)
  /\ UNCHANGED ipcVars /\ UNCHANGED << apiStyle, trips, cleanups, emits, sinceFlush, cleanedUp, landed, provider,
                  geminiKey, consecutiveFailures, sessionConfiguration, smSubscribers, cur,
                  nextSock, downstream, received, checkpoint, pendingAppends,
                  conversationsFile, sessionsFile, pendingWrites, initLoad, updates,
                  reloaded, lastClient, swaps, nClient, nUpstream >>
  /\ UNCHANGED switchVars

(* an agent delta longer than the buffer limit and a user delta *)
PersistInputs(prov) ==
  IF prov = OPENAI
  THEN { [type |-> "response.audio_transcript.delta", delta |-> Chars(BUFFER_SIZE_LIMIT + 1)],
         [type |-> "conversation.item.input_audio_transcription.delta",
          delta |-> <<"y", "o">>] }
  ELSE { [serverContent |-> [outputTranscription |-> [text |-> Chars(BUFFER_SIZE_LIMIT + 1)]]],
         [serverContent |-> [inputTranscription |-> [text |-> <<"y", "o">>]]] }

(* a style A client; the session's files hold a config, a transcript, both *)
(* or nothing                                                              *)
InitPersistFail == InitConnection /\ geminiKey /\ apiStyle = OPENAI

NextPersistFail ==
  \/ /\ InputsTaken < MaxPersistEvents
     /\ \E payload \in CleanupClientInputs(apiStyle) : ReceiveEvent(payload, MaxPersistEvents)
  \/ \E c \in pendingWrites : ApplyWrite(c)
  \/ \E c \in pendingWrites : WriteFails(c)
  \/ InitLoadDone
  \/ InitLoadFails
  \/ \E g \in Gens : ProviderOpen(g)
  \/ \E i \in DOMAIN replays : ReplayLoadDone(i)
  \/ \E i \in DOMAIN replays : ReplayLoadFails(i)
  \/ \E i \in DOMAIN replays : ReplayHistoryDone(i)
  \/ \E i \in DOMAIN replays : ReplayHistoryFails(i)
  \/ /\ InputsTaken < MaxPersistEvents
     /\ \E g \in Gens : \E payload \in PersistInputs(gens[g].prov) :
          UpstreamMessage(g, payload)
  \/ \E k \in DOMAIN pendingAppends : ApplyAppend(k)
  \/ \E k \in DOMAIN pendingAppends : AppendFails(k)

SpecPersistFail == InitPersistFail /\ [][NextPersistFail]_vars

FailedNow(op) == Len(failures') = Len(failures) + 1 /\ failures'[Len(failures')].op = op

(* C25: a failing persistence operation never raises into the event path.  *)
(* A failed append or overwrite changes nothing a client or upstream event *)
(* has produced: what was delivered upstream and downstream stays          *)
(* delivered, the transcript buffer stays as the flush left it, the        *)
(* sockets and the stored config are untouched.  A failed read leaves the  *)
(* replay going with the config held in memory.  Events that arrive after  *)
(* a failure are delivered as they would be without it.                    *)
C25_PersistenceFailureContained ==
  [][ /\ (FailedNow("append") \/ FailedNow("overwrite") \/ FailedNow("read"))
         => /\ upstream' = upstream /\ downstream' = downstream
            /\ received' = received /\ lastClient' = lastClient
            /\ checkpoint' = checkpoint /\ sinceFlush' = sinceFlush
            /\ pendingAppends' = pendingAppends
            /\ gens' = gens /\ smSubscribers' = smSubscribers
            /\ sessionConfiguration' = sessionConfiguration
            /\ cleanedUp' = cleanedUp
      /\ \A i \in DOMAIN replays :
           /\ (FailedNow("read") /\ replays'[i] # replays[i])
                => replays'[i].stage = IF IsSome(sessionConfiguration) THEN "history"
                                       ELSE "done"
           /\ (FailedNow("history") /\ replays'[i] # replays[i])
                => /\ replays'[i].stage = "done"
                   /\ replays'[i].fed =
                        IF Get(sessionConfiguration).src = apiStyle
                        THEN sessionConfiguration ELSE None
                   /\ downstream' = downstream /\ checkpoint' = checkpoint
      /\ (Len(failures) > 0 /\ nUpstream' = nUpstream + 1)
           => LET e == received'[Len(received')]
                  outs == ServerEmits(e.gen, e.ev)
              IN  /\ Len(received') = Len(received) + 1
                  /\ downstream' = downstream \o
                       [i \in 1..Len(outs) |-> [gen |-> e.gen, ev |-> outs[i]]]
                  /\ sinceFlush' # sinceFlush \/ Len(pendingAppends') > Len(pendingAppends)
      /\ (Len(failures) > 0 /\ nClient' = nClient + 1)
           => /\ IsSome(lastClient')
              /\ upstream' = upstream \o EmitToTranslators(smSubscribers, Get(lastClient'))
    ]_vars

(* the append a flush started has failed and its content is lost, an       *)
(* overwrite has failed, and an upstream event that arrived after both     *)
(* was delivered downstream                                                *)
C25_Witness ==
  /\ Len(failures) = 2
  /\ \E f \in DOMAIN failures : failures[f].op = "append"
  /\ \E f \in DOMAIN failures : failures[f].op = "overwrite"
  /\ \A f \in DOMAIN failures : failures[f].at = 2
  /\ nClient = 1
  /\ nUpstream = 2
  /\ Len(downstream) = 2
  /\ conversationsFile = None
  /\ sessionsFile = None

(***************************************************************************)
(* A provider connection whose socket keeps closing                        *)
(***************************************************************************)
NextReconnect ==
  \/ /\ Len(replays) < MaxReconnectOpens
     /\ \E g \in Gens : ProviderOpen(g)
  \/ \E g \in Gens : ProviderCloseWithin(g, MaxReconnectSockets)

SpecReconnect == Init /\ [][NextReconnect]_vars

(* the connection attempts of generation g that have failed in a row: its  *)
(* sockets since the last one that opened, the current one included when   *)
(* it is closing without having opened                                     *)
Opened(g) == { replays[i].sock : i \in DOMAIN replays } \cap (gens[g].firstSock..gens[g].sock)
LastOpened(g) ==
  IF Opened(g) = {} THEN gens[g].firstSock - 1
  ELSE CHOOSE s \in Opened(g) : \A t \in Opened(g) : t <= s
FailedInARow(g) == gens[g].sock - LastOpened(g)

(* C26: upstream reconnect attempts are capped: after the configured       *)
(* number of consecutive failed attempts a provider connection stops       *)
(* reconnecting (and successive attempts are spaced by an exponential      *)
(* backoff of at most 30,000 ms).                                          *)
C26_ReconnectCapped ==
  [][ \A g \in DOMAIN gens :
        (g \in DOMAIN gens' /\ FailedInARow(g) >= maxReconnectAttempts)
          => gens'[g].sock = gens[g].sock
    ]_vars

(* what handleClose does: every close the pipeline did not ask for is      *)
(* answered by a new socket in the same step, whatever came before         *)
C26_ReconnectImmediate ==
  [][ \A g \in DOMAIN gens :
        (g \in DOMAIN gens' /\ nextSock' # nextSock /\ gens'[g].sock # gens[g].sock)
          => /\ gens'[g].sock = nextSock + 1
             /\ gens'[g].readyState = "CONNECTING"
    ]_vars

(* eleven attempts in a row have failed and a twelfth socket is connecting *)
C26_Uncapped ==
  /\ gens[1].sock = maxReconnectAttempts + 2
  /\ replays = <<>>

(***************************************************************************)
(* Subscriber lists after a swap                                           *)
(***************************************************************************)
(* C27: after each swap the SessionManager has exactly one subscriber, the *)
(* newly built client translator; the cleaned-up translators of earlier    *)
(* providers are in no subscriber list and keep no subscribers of their    *)
(* own, for any number of swaps.                                           *)
C27_OneSubscriberAfterSwap ==
  (Len(swaps) > 0 /\ ~cleanedUp) =>
    /\ smSubscribers = << cur >>
    /\ \A g \in DOMAIN gens :
         g # cur => /\ \A i \in DOMAIN smSubscribers : smSubscribers[i] # g
                    /\ ~gens[g].ctSubscribed
                    /\ ~gens[g].stSubscribed

(* what the swap keeps: the newly built translator is the last subscriber  *)
(* of the SessionManager, and the provider connections of earlier          *)
(* generations have dropped their subscribers and their callbacks          *)
C27_NewestIsLast ==
  (Len(swaps) > 0 /\ ~cleanedUp) =>
    /\ smSubscribers[Len(smSubscribers)] = cur
    /\ \A g \in DOMAIN gens :
         g # cur => ~gens[g].pemSubscribed /\ ~gens[g].connectionCallback

(* one swap has happened: the SessionManager still lists the translator of *)
(* the first provider, which still lists the first provider connection     *)
C27_Leaked ==
  /\ Len(swaps) = 1
  /\ ~cleanedUp
  /\ smSubscribers = <<1, 2>>
  /\ gens[1].ctSubscribed
  /\ ~gens[1].ctExtractor

(***************************************************************************)
(* What a replay leaves alone                                              *)
(***************************************************************************)
Sentence ==
  "\n\nHere is the previous conversation that happened which should be continued now:\n"

(* how often the fixed sentence occurs in a text *)
Occurrences(text) == Cardinality({ i \in DOMAIN text : text[i] = Sentence })

(* the stored config, the persisted config and the configs on their way to *)
(* persistence                                                             *)
KeptConfigs ==
  (IF IsSome(sessionConfiguration) THEN { Get(sessionConfiguration) } ELSE {})
    \cup (IF IsSome(sessionsFile) THEN { JSONparse(Get(sessionsFile)) } ELSE {})
    \cup { JSONparse(c) : c \in pendingWrites }

ReplayActs(i) == i \in DOMAIN replays /\ replays'[i] # replays[i]

(* C28: a replay never passes through the SessionManager's receiveEvent:   *)
(* it performs no merge and no persistence write, and the transcript is    *)
(* appended to a copy, so the stored and persisted config never contain    *)
(* the prior-conversation text, and every replay's instructions are the    *)
(* stored instructions followed once by the sentence and the log as it is, *)
(* however many replays came before.                                       *)
C28_ReplayBypassesStore ==
  [][ /\ \A c \in KeptConfigs : Occurrences(InstructionsOf(apiStyle, c)) = 0
      /\ \A i \in DOMAIN replays :
           ReplayActs(i) =>
             /\ pendingWrites' = pendingWrites
             /\ sessionsFile' = sessionsFile
             /\ conversationsFile' = conversationsFile
             /\ updates' = updates
             /\ sessionConfiguration' = sessionConfiguration
                  \/ (IsSome(sessionsFile) /\
                      sessionConfiguration' = Some(JSONparse(Get(sessionsFile))))
             /\ ReturnedConfig(i) =>
                  /\ sessionConfiguration' = sessionConfiguration
                  /\ IsSome(replays'[i].fed) =>
                       LET f == Get(replays'[i].fed)
                           stored == Get(sessionConfiguration)
                       IN  \/ f = stored
                           \/ /\ IsSome(conversationsFile)
                              /\ InstructionsOf(apiStyle, f) =
                                   InstructionsOf(apiStyle, stored) \o << Sentence >>
                                     \o trim(Get(conversationsFile))
                              /\ Occurrences(InstructionsOf(apiStyle, f)) = 1
    ]_vars

(* two replays over the same log and the same stored config have fed the   *)
(* same config, transcript included, and the stored config has none of it  *)
C28_Witness ==
  /\ Len(replays) = 2
  /\ \A i \in DOMAIN replays : replays[i].stage = "done" /\ IsSome(replays[i].fed)
  /\ replays[1].fed = replays[2].fed
  /\ Occurrences(InstructionsOf(apiStyle, Get(replays[1].fed))) = 1
  /\ IsSome(sessionConfiguration)
  /\ Occurrences(InstructionsOf(apiStyle, Get(sessionConfiguration))) = 0
  /\ updates = <<>>

(***************************************************************************)
(* The transcript buffer around a flush                                    *)
(***************************************************************************)
NextFlush ==
  \/ \E g \in Gens : ProviderOpen(g)
  \/ /\ InputsTaken < MaxCheckpointEvents
     /\ \E g \in Gens : \E payload \in CheckpointInputs(gens[g].prov) :
          UpstreamMessage(g, payload)
  \/ CreateCheckpoint
  \/ \E k \in DOMAIN pendingAppends : ApplyAppend(k)
  \/ \E k \in DOMAIN pendingAppends : AppendFails(k)
  \/ PipelineCleanup

SpecFlush == Init /\ [][NextFlush]_vars

FlushStarted == Len(pendingAppends') > Len(pendingAppends)
AppendSettled == landed' # landed \/ failures' # failures

(* C29: a flush resets the transcript buffer synchronously: as soon as it  *)
(* is started, and whether the append is still pending, completes or       *)
(* fails, the buffer is empty, currentType is none and the length is 0, so *)
(* a delta arriving right after is never coalesced into the pending        *)
(* append: it starts a new buffer with its own kind prefix.                *)
C29_FlushResetsNow ==
  [][ /\ FlushStarted =>
           /\ checkpoint'.currentContentBuffer = <<>>
           /\ checkpoint'.currentType = None
           /\ checkpoint'.currentContentLength = 0
      /\ AppendSettled => checkpoint' = checkpoint
      /\ \A k \in DOMAIN pendingAppends :
           k \in DOMAIN pendingAppends' /\ pendingAppends'[k] = pendingAppends[k]
      /\ (~FlushStarted /\ checkpoint.currentContentBuffer = <<>> /\ checkpoint' # checkpoint) =>
           LET chunk == checkpoint'.currentContentBuffer[1]
           IN  /\ Len(checkpoint'.currentContentBuffer) = 1
               /\ chunk[1] \in Kinds /\ chunk[2] = ":"
               /\ checkpoint'.currentType = Some(chunk[1])
               /\ checkpoint'.currentContentLength = Len(chunk) - 2
    ]_vars

(* a flush was started by a delta over the limit, its append is neither    *)
(* completed nor failed, and the delta that arrived next sits alone in the *)
(* buffer                                                                  *)
C29_Witness ==
  /\ Len(pendingAppends) = 1
  /\ Len(pendingAppends[1]) > BUFFER_SIZE_LIMIT
  /\ landed = <<>> /\ failures = <<>>
  /\ nUpstream = 2
  /\ checkpoint.currentContentBuffer = << <<"agent", ":", "h", "e", "l", "l", "o">> >>

(***************************************************************************)
(* Client events that find the provider socket not open                    *)
(***************************************************************************)
NewWrites == { k \in DOMAIN upstream' : k > Len(upstream) }

(* C30: a client event that reaches the provider connection while its      *)
(* socket is not open is dropped: it is not queued and is never written to *)
(* that socket or to a later socket after it opens or reconnects.  Every   *)
(* write happens in the step of the receiveEvent call it came from, to a   *)
(* socket that is open at that moment; a client event that finds the       *)
(* socket not open leaves the log of writes as it was, and the only writes *)
(* made without a client event are replays of the stored config.           *)
C30_DroppedWhenNotOpen ==
  [][ /\ \A k \in DOMAIN upstream : k \in DOMAIN upstream' /\ upstream'[k] = upstream[k]
      /\ \A k \in NewWrites :
           /\ \E g \in DOMAIN gens :
                gens[g].sock = upstream'[k].sock /\ gens[g].readyState = "OPEN"
           /\ \/ upstream'[k].replay
                   /\ nClient' = nClient
                   /\ ClientExtract(apiStyle, upstream'[k].from.payload) = "sessionUpdate"
              \/ ~upstream'[k].replay
                   /\ nClient' = nClient + 1
                   /\ upstream'[k].from = Get(lastClient')
      /\ (nClient' = nClient + 1 /\ \A g \in DOMAIN gens : gens[g].readyState # "OPEN")
           => upstream' = upstream
    ]_vars

(* a tool response arrived while the socket was connecting; the socket has *)
(* opened since, the replay found no config, and nothing was ever written  *)
C30_Witness ==
  /\ nClient = 1
  /\ ClientExtract(apiStyle, Get(lastClient).payload) = "toolResponse"
  /\ Len(gens) = 1
  /\ gens[1].prov = apiStyle
  /\ gens[1].readyState = "OPEN"
  /\ Len(replays) = 1 /\ replays[1].stage = "done"
  /\ upstream = <<>>

(***************************************************************************)
(* How many samples PingSwitch keeps                                       *)
(***************************************************************************)
(* C31: the number of latency samples the switch keeps per provider stays  *)
(* within a fixed bound (the N samples a decision looks at) for every      *)
(* sample stream, including streams that never trigger a switch.           *)
C31_WindowBounded ==
  \A p \in Providers : Len(providerLatencies[p]) <= consecutiveFailures

(* what addStats does: a sample that triggers no switch makes its          *)
(* provider's list one longer, and nothing is ever dropped from a list     *)
(* except by a switch away from its provider                               *)
C31_ListOnlyGrows ==
  [][ (nStats' # nStats /\ switchRequests' = switchRequests) =>
        LET stats == Get(lastStats')
        IN  /\ Len(providerLatencies'[stats.provider]) =
                 Len(providerLatencies[stats.provider]) + 1
            /\ \A p \in Providers \ {stats.provider} :
                 providerLatencies'[p] = providerLatencies[p]
    ]_vars

(* four samples under the threshold for the current provider are all kept *)
C31_Unbounded ==
  /\ Len(providerLatencies[currentProvider]) = consecutiveFailures + 1
  /\ \A i \in DOMAIN providerLatencies[currentProvider] :
       providerLatencies[currentProvider][i] < LATENCY_THRESHOLD_MS
  /\ switchRequests = <<>>

(***************************************************************************)
(* Duplicates after swaps                                                  *)
(***************************************************************************)
NewDeliveries == { k \in DOMAIN downstream' : k > Len(downstream) }

(* C32: after any number of swaps, each client event passed to             *)
(* receiveEvent is written to at most one provider socket and at most once *)
(* per translated message, and each upstream event reaches the downstream  *)
(* socket and the checkpoint at most once: a cleaned-up translator or      *)
(* provider connection never forwards anything.                            *)
C32_AtMostOnce ==
  [][ /\ \A i, j \in DOMAIN upstream' :
           (i < j /\ ~upstream'[i].replay /\ ~upstream'[j].replay
              /\ upstream'[i].call = upstream'[j].call)
             => /\ upstream'[i].sock = upstream'[j].sock
                /\ upstream'[i].idx # upstream'[j].idx
      /\ \A k \in NewWrites :
           \E g \in DOMAIN gens :
             /\ gens[g].sock = upstream'[k].sock
             /\ gens[g].ctExtractor /\ gens[g].handlers /\ ~gens[g].selfClosing
      /\ \A k \in NewDeliveries :
           LET g == downstream'[k].gen
           IN  /\ nUpstream' = nUpstream + 1
               /\ gens[g].pemSubscribed /\ gens[g].handlers /\ ~gens[g].selfClosing
               /\ received'[Len(received')].gen = g
               /\ Cardinality(NewDeliveries) <=
                    (IF gens[g].prov = apiStyle THEN 1
                     ELSE Len(ServerTransform(gens[g].prov, apiStyle, gens[g].userConvId,
                                              received'[Len(received')].ev)))
      /\ (Len(pendingAppends') = Len(pendingAppends) /\ ~cleanedUp')
           => Len(sinceFlush') <= Len(sinceFlush) + Cardinality(NewDeliveries)
    ]_vars

(* after a swap, with the first provider's translator still subscribed to  *)
(* the SessionManager, a client event was written to the second provider's *)
(* socket alone and an upstream event was delivered once                   *)
C32_Witness ==
  /\ Len(swaps) = 1
  /\ smSubscribers = <<1, 2>>
  /\ Len(upstream) > 0
  /\ \E k \in DOMAIN upstream :
       ~upstream[k].replay /\ upstream[k].sock = gens[2].sock
  /\ \A k \in DOMAIN upstream : upstream[k].sock = gens[2].sock
  /\ \E k \in DOMAIN downstream : downstream[k].gen = 2

(***************************************************************************)
(* The src tag of what leaves the pipeline                                 *)
(***************************************************************************)
(* C33: in every pipeline configuration and after any number of swaps,     *)
(* every event delivered to the downstream socket or to the checkpoint has *)
(* src equal to the client's style, and every event written to the         *)
(* provider connection has src equal to the pipeline's current provider.   *)
C33_SrcTags ==
  [][ /\ \A k \in DOMAIN downstream' : downstream'[k].ev.src = apiStyle
      /\ \A k \in DOMAIN upstream' : upstream'[k].ev.src = upstream'[k].prov
      /\ \A k \in NewWrites :
           /\ upstream'[k].ev.src = provider
           /\ upstream'[k].ev.src = provider'
    ]_vars

(* a style A session on provider B after a swap: a client event was        *)
(* written with src B and an upstream event was delivered with src A       *)
C33_Witness ==
  /\ Len(swaps) = 1
  /\ provider # apiStyle
  /\ \E k \in DOMAIN upstream : ~upstream[k].replay /\ upstream[k].ev.src = provider
  /\ \E k \in DOMAIN downstream :
       /\ downstream[k].gen = 2
       /\ downstream[k].ev.src = apiStyle
       /\ \E r \in DOMAIN received : received[r].gen = 2 /\ received[r].ev.src = provider

(***************************************************************************)
(* The pipeline's provider and the switch's currentProvider                *)
(***************************************************************************)
InitSwap == InitConnection /\ sessionsFile = None /\ conversationsFile = None

NextSwap ==
  \/ \E g \in Gens : ProviderOpen(g)
  \/ /\ nStats < MaxSamples
     /\ \E g \in Gens : \E latency \in SampleLatencies : PongWithin(g, latency, MaxSwapSockets)
  \/ \E g \in Gens : ProviderCloseWithin(g, MaxSwapSockets)

SpecSwap == InitSwap /\ [][NextSwap]_vars

(* C34: whenever no swap is in progress, the pipeline's current provider   *)
(* equals the switch's currentProvider, and the stats callback that feeds  *)
(* the switch is registered only on the live provider connection, so every *)
(* sample the pipeline feeds to the switch is tagged with currentProvider. *)
C34_ProviderInStep ==
  [][ /\ provider' = currentProvider'
      /\ \A g \in DOMAIN gens' :
           gens'[g].statsCallback =>
             /\ g = cur'
             /\ gens'[g].prov = currentProvider'
             /\ ~gens'[g].selfClosing
      /\ nStats' # nStats => Get(lastStats').provider = currentProvider
    ]_vars

(* a sample under the threshold, a swap, and a sample the new connection   *)
(* has fed since                                                           *)
C34_Witness ==
  /\ Len(swaps) = 1
  /\ nStats = 3
  /\ Len(gens) = 2
  /\ Get(lastStats).provider = gens[2].prov
  /\ currentProvider = gens[2].prov
  /\ ~gens[1].statsCallback

(***************************************************************************)
(* Reloading the config while writes are still on their way                *)
(***************************************************************************)
(* C35: once the load from persistence has completed, the stored config    *)
(* still reflects every session.update merged before or during the load:   *)
(* its payload.session has the keys the updates name, each with the value  *)
(* of the last update naming it, whatever the order in which the           *)
(* un-awaited config writes and the load complete.                         *)
C35_ReloadKeepsMerges ==
  (~initLoad /\ Len(updates) > 0) =>
     /\ IsSome(sessionConfiguration)
     /\ Has(Get(sessionConfiguration).payload, "session")
     /\ \A k \in KeysNamed :
          /\ k \in DOMAIN Get(sessionConfiguration).payload.session
          /\ Get(sessionConfiguration).payload.session[k] = updates[LastNaming(k)][k]

(* the first update's write has landed, the second update was merged while *)
(* the load was in flight, and the completed load has put the config of    *)
(* the first update back                                                   *)
C35_Reverted ==
  /\ ~initLoad
  /\ reloaded
  /\ Len(updates) = 2
  /\ updates[1] = [voice |-> "a", instructions |-> Instr("i"), tools |-> << OAIToolDef >>]
  /\ updates[2] = [instructions |-> <<>>]
  /\ IsSome(sessionConfiguration)
  /\ Get(sessionConfiguration).payload.session = updates[1]
  /\ pendingWrites # {}

(***************************************************************************)
(* Pipeline.cleanup while a replay is loading                              *)
(***************************************************************************)
InitCleanupInFlight == InitConnection /\ geminiKey

NextCleanupInFlight ==
  \/ \E payload \in CleanupClientInputs(apiStyle) : ReceiveEvent(payload, MaxCleanupEvents)
  \/ \E c \in pendingWrites : ApplyWrite(c)
  \/ InitLoadDone
  \/ \E g \in Gens : ProviderOpen(g)
  \/ \E i \in DOMAIN replays : ReplayLoadDone(i)
  \/ \E i \in DOMAIN replays : ReplayHistoryDone(i)
  \/ PipelineCleanup

SpecCleanupInFlight == InitCleanupInFlight /\ [][NextCleanupInFlight]_vars

(* C36: when Pipeline.cleanup has run while a replay's config and          *)
(* transcript load was in flight, the completion of that load hands no     *)
(* event to a translator or a provider connection and raises no error.     *)
C36_LoadAfterCleanupInert ==
  [][ \A i \in DOMAIN replays :
        (cleanedUp /\ replays[i].stage # "done" /\ replays'[i].stage = "done") =>
           /\ upstream' = upstream
           /\ gens' = gens
           /\ ~IsSome(replays'[i].fed)
           /\ ~replays'[i].raised
    ]_vars

(* what holds: the completion of a load after the cleanup hands no event   *)
(* to a translator or a provider connection                                *)
C36_NoEventAfterCleanup ==
  [][ \A i \in DOMAIN replays :
        (cleanedUp /\ replays[i].stage # "done" /\ replays'[i].stage = "done") =>
           /\ upstream' = upstream
           /\ gens' = gens
           /\ ~IsSome(replays'[i].fed)
    ]_vars

(* the cleanup ran before the config read of a replay completed, the read  *)
(* brought the persisted config back and the replay threw                  *)
C36_Raised ==
  /\ cleanedUp
  /\ Len(replays) = 1
  /\ replays[1].stage = "done"
  /\ replays[1].raised
  /\ IsSome(sessionConfiguration)
  /\ upstream = <<>>

(***************************************************************************)
(* SecureIPCClient: connect, sendMessage, the socket's events, the         *)
(* request timeouts, the reconnect timers and disconnect                   *)
(***************************************************************************)
NewIPCSocket(by, after) ==
  [state |-> "connecting", listeners |-> TRUE, by |-> by, afterDisconnect |-> after,
   written |-> {}]

(* the body of the promise sendMessage returns, for request id on the      *)
(* client's socket: the request is stored with its timeout and written,    *)
(* or rejected when building or writing the message throws                 *)
SendBody(id, throws, c, socks, reqs) ==
  IF throws
  THEN [client |-> c, sockets |-> socks,
        requests |-> [reqs EXCEPT ![id].stage = "sent", ![id].settled = Append(@, "write")]]
  ELSE [client |-> [c EXCEPT !.pendingRequests = @ \cup {id}],
        sockets |-> [socks EXCEPT ![c.socket].written = @ \cup {id}],
        requests |-> [reqs EXCEPT ![id].stage = "sent", ![id].timeout = TRUE]]

(* an explicit connect() that finds the client neither connected nor       *)
(* connecting                                                              *)
IPCConnect ==
  /\ Len(ipcSockets) < MaxIPCSockets
  /\ ~ipcClient.connected /\ ~ipcClient.connecting
  /\ ipcSockets' = Append(ipcSockets, NewIPCSocket("call", FALSE))
  /\ ipcClient' = [ipcClient EXCEPT !.connecting = TRUE, !.socket = Len(ipcSockets) + 1]
  /\ ipcDisconnected' = FALSE
  /\ UNCHANGED << ipcTimers, ipcRequests >>
  /\ UNCHANGED pipelineVars
  /\ UNCHANGED switchVars

(* sendMessage: when the client is connected, or connecting (connect()     *)
(* returns at once), the promise body runs now and throws tells whether    *)
(* building or writing the message throws; otherwise the call awaits the   *)
(* connect() it has started                                                *)
IPCSendMessage(throws) ==
  /\ Len(ipcRequests) < MaxRequests
  /\ LET id == Len(ipcRequests) + 1
         req == [stage |-> "connect", waitsOn |-> 0, timeout |-> FALSE, settled |-> <<>>]
     IN  IF ipcClient.connected \/ ipcClient.connecting
         THEN LET r == SendBody(id, throws, ipcClient, ipcSockets, Append(ipcRequests, req))
              IN  /\ ipcClient' = r.client
                  /\ ipcSockets' = r.sockets
                  /\ ipcRequests' = r.requests
                  /\ ipcDisconnected' = ipcDisconnected
         ELSE /\ Len(ipcSockets) < MaxIPCSockets
              /\ ~throws
              /\ ipcSockets' = Append(ipcSockets, NewIPCSocket("call", FALSE))
              /\ ipcClient' = [ipcClient EXCEPT !.connecting = TRUE,
                                                !.socket = Len(ipcSockets) + 1]
              /\ ipcRequests' = Append(ipcRequests,
                                       [req EXCEPT !.waitsOn = Len(ipcSockets) + 1])
              /\ ipcDisconnected' = FALSE
  /\ UNCHANGED ipcTimers
  /\ UNCHANGED pipelineVars
  /\ UNCHANGED switchVars

(* the requests whose sendMessage awaits the connect() that created s *)
Awaiting(s) ==
  { id \in DOMAIN ipcRequests :
      ipcRequests[id].stage = "connect" /\ ipcRequests[id].waitsOn = s }

RECURSIVE SendBodies(_, _, _, _, _)
SendBodies(ids, throws, c, socks, reqs) ==
  IF ids = {} THEN [client |-> c, sockets |-> socks, requests |-> reqs]
  ELSE LET id == CHOOSE i \in ids : \A j \in ids : i <= j
           r == SendBody(id, throws, c, socks, reqs)
       IN  SendBodies(ids \ {id}, throws, r.client, r.sockets, r.requests)

(* the socket's connect callback: connect() resolves and the sendMessage   *)
(* that awaited it runs its promise body                                   *)
IPCSocketConnected(s, throws) ==
  /\ ipcSockets[s].state = "connecting"
  /\ ipcSockets[s].listeners
  /\ throws => Awaiting(s) # {}
  /\ LET r == SendBodies(Awaiting(s), throws,
                         [ipcClient EXCEPT !.connected = TRUE, !.connecting = FALSE,
                                           !.reconnectAttempts = 0],
                         [ipcSockets EXCEPT ![s].state = "open"], ipcRequests)
     IN  /\ ipcClient' = r.client
         /\ ipcSockets' = r.sockets
         /\ ipcRequests' = r.requests
  /\ UNCHANGED << ipcTimers, ipcDisconnected >>
  /\ UNCHANGED pipelineVars
  /\ UNCHANGED switchVars

(* handleDisconnect for socket s: the listeners are removed, every pending *)
(* request is rejected with its timeout cleared, a reconnect timer is set  *)
(* unless reconnectAttempts has reached the maximum; connectRejects tells  *)
(* whether the connect() that created s rejects as well                    *)
HandleDisconnect(s, connectRejects) ==
  LET schedules == ipcClient.reconnectAttempts < maxReconnectAttempts
  IN  /\ schedules => Len(ipcTimers) < MaxIPCTimers
      /\ ipcClient' = handleDisconnect(ipcClient, Len(ipcTimers) + 1)
      /\ ipcTimers' = IF schedules THEN Append(ipcTimers, "pending") ELSE ipcTimers
      /\ ipcSockets' = [ipcSockets EXCEPT ![s].state = "closed", ![s].listeners = FALSE]
      /\ ipcRequests' =
           [id \in DOMAIN ipcRequests |->
              IF id \in ipcClient.pendingRequests
              THEN [ipcRequests[id] EXCEPT !.timeout = FALSE,
                                           !.settled = Append(@, "disconnect")]
              ELSE IF connectRejects /\ id \in Awaiting(s)
              THEN [ipcRequests[id] EXCEPT !.stage = "failed",
                                           !.settled = Append(@, "connect")]
              ELSE ipcRequests[id]]
      /\ UNCHANGED ipcDisconnected
      /\ UNCHANGED pipelineVars
      /\ UNCHANGED switchVars

(* the connection attempt fails: the socket's 'error', or the connect      *)
(* timeout, which rejects and destroys the socket                          *)
IPCConnectFails(s) ==
  /\ ipcSockets[s].state = "connecting"
  /\ ipcSockets[s].listeners
  /\ HandleDisconnect(s, TRUE)

(* 'error', 'close' or 'end' on a connected socket *)
IPCSocketLost(s) ==
  /\ ipcSockets[s].state = "open"
  /\ ipcSockets[s].listeners
  /\ HandleDisconnect(s, FALSE)

(* a response line carrying the id of a message written to the socket *)
IPCResponse(id) ==
  /\ ipcClient.connected
  /\ id \in ipcSockets[ipcClient.socket].written
  /\ IF id \in ipcClient.pendingRequests
     THEN /\ ipcClient' = [ipcClient EXCEPT !.pendingRequests = @ \ {id}]
          /\ ipcRequests' = [ipcRequests EXCEPT ![id] = processResponse(@)]
     ELSE UNCHANGED << ipcClient, ipcRequests >>
  /\ UNCHANGED << ipcSockets, ipcTimers, ipcDisconnected >>
  /\ UNCHANGED pipelineVars
  /\ UNCHANGED switchVars

(* the request timeout of a sendMessage fires *)
IPCRequestTimeout(id) ==
  /\ ipcRequests[id].timeout
  /\ ipcClient' = [ipcClient EXCEPT !.pendingRequests = @ \ {id}]
  /\ ipcRequests' = [ipcRequests EXCEPT ![id].timeout = FALSE,
                                        ![id].settled = Append(@, "timeout")]
  /\ UNCHANGED << ipcSockets, ipcTimers, ipcDisconnected >>
  /\ UNCHANGED pipelineVars
  /\ UNCHANGED switchVars

(* a reconnect timer fires: reconnectAttempts++ and connect() *)
IPCReconnectTimer(t) ==
  /\ ipcTimers[t] = "pending"
  /\ ipcTimers' = [ipcTimers EXCEPT ![t] = "fired"]
  /\ IF ipcClient.connected \/ ipcClient.connecting
     THEN /\ ipcClient' = [ipcClient EXCEPT !.reconnectAttempts = @ + 1]
          /\ ipcSockets' = ipcSockets
     ELSE /\ Len(ipcSockets) < MaxIPCSockets
          /\ ipcClient' = [ipcClient EXCEPT !.reconnectAttempts = @ + 1,
                                            !.connecting = TRUE,
                                            !.socket = Len(ipcSockets) + 1]
          /\ ipcSockets' = Append(ipcSockets, NewIPCSocket("timer", ipcDisconnected))
  /\ UNCHANGED << ipcRequests, ipcDisconnected >>
  /\ UNCHANGED pipelineVars
  /\ UNCHANGED switchVars

(* disconnect(): clearTimeout on the timer the reconnectTimer field names  *)
(* (the field is not reset when a timer fires), then the fields; the       *)
(* socket.end() of a connected socket shows as a later 'close'             *)
IPCDisconnect ==
  /\ ~ipcDisconnected
  /\ ipcDisconnected' = TRUE
  /\ ipcTimers' = [t \in DOMAIN ipcTimers |->
                     IF t = ipcClient.reconnectTimer /\ ipcTimers[t] = "pending"
                     THEN "cleared" ELSE ipcTimers[t]]
  /\ ipcClient' = disconnect(ipcClient)
  /\ UNCHANGED << ipcSockets, ipcRequests >>
  /\ UNCHANGED pipelineVars
  /\ UNCHANGED switchVars

InitIPC == Init /\ apiStyle = OPENAI /\ provider = OPENAI

NextIPC ==
  \/ IPCConnect
  \/ \E throws \in BOOLEAN : IPCSendMessage(throws)
  \/ \E s \in DOMAIN ipcSockets : \E throws \in BOOLEAN : IPCSocketConnected(s, throws)
  \/ \E s \in DOMAIN ipcSockets : IPCConnectFails(s)
  \/ \E s \in DOMAIN ipcSockets : IPCSocketLost(s)
  \/ \E id \in DOMAIN ipcRequests : IPCResponse(id)
  \/ \E id \in DOMAIN ipcRequests : IPCRequestTimeout(id)
  \/ \E t \in DOMAIN ipcTimers : IPCReconnectTimer(t)
  \/ IPCDisconnect

SpecIPC == InitIPC /\ [][NextIPC]_vars

(***************************************************************************)
(* Requests of the IPC client                                              *)
(***************************************************************************)
Unsettled == { id \in DOMAIN ipcRequests : Len(ipcRequests[id].settled) = 0 }

(* C37: every sendMessage promise is settled at most once, and the         *)
(* pending-request map holds exactly the requests not yet settled.         *)
C37_MapIsUnsettled ==
  /\ \A id \in DOMAIN ipcRequests : Len(ipcRequests[id].settled) <= 1
  /\ ipcClient.pendingRequests = Unsettled

(* C37, amended: every sendMessage promise is settled at most once; the    *)
(* pending-request map holds exactly the requests whose message has been   *)
(* handed to the socket and that are not yet settled, each with its        *)
(* timeout armed; a request whose sendMessage still awaits the connection  *)
(* is in no map, waits on a socket that is still connecting and is         *)
(* settled by the outcome of that connect; the map is empty whenever the   *)
(* client is neither connected nor connecting.                             *)
C37_SettledOnce ==
  /\ \A id \in DOMAIN ipcRequests :
       LET req == ipcRequests[id]
       IN  /\ Len(req.settled) <= 1
           /\ id \in ipcClient.pendingRequests <=>
                (req.stage = "sent" /\ Len(req.settled) = 0)
           /\ req.timeout <=> id \in ipcClient.pendingRequests
           /\ (req.stage = "connect") =>
                /\ Len(req.settled) = 0
                /\ ipcSockets[req.waitsOn].state = "connecting"
                /\ ipcSockets[req.waitsOn].listeners
                /\ ipcClient.socket = req.waitsOn
           /\ (req.stage = "failed") => req.settled = <<"connect">>
  /\ ipcClient.pendingRequests \subseteq DOMAIN ipcRequests
  /\ (~ipcClient.connected /\ ~ipcClient.connecting) => ipcClient.pendingRequests = {}

(* one request has been resolved by its response, a second one was         *)
(* rejected by the disconnect that followed, and the map is empty          *)
C37_Witness ==
  /\ Len(ipcRequests) = 2
  /\ ipcRequests[1].settled = <<"response">>
  /\ ipcRequests[2].settled = <<"disconnect">>
  /\ ~ipcClient.connected
  /\ ipcClient.pendingRequests = {}

(* a sendMessage called on a disconnected client awaits the connection:    *)
(* its promise is not settled and the map is empty                         *)
C37_AwaitingConnect ==
  /\ Len(ipcRequests) = 1
  /\ ipcRequests[1].stage = "connect"
  /\ ipcRequests[1].settled = <<>>
  /\ ipcClient.connecting
  /\ ipcClient.pendingRequests = {}

(***************************************************************************)
(* Reconnects after disconnect()                                           *)
(***************************************************************************)
(* C38: once disconnect() has been called, and until a later explicit      *)
(* connect or sendMessage call opens a connection, no reconnect timer      *)
(* fires a connect that opens a connection.                                *)
C38_NoReconnectAfterDisconnect ==
  \A s \in DOMAIN ipcSockets :
     ipcSockets[s].by = "timer" => ~ipcSockets[s].afterDisconnect

(* what disconnect() does: the timer the reconnectTimer field names is no  *)
(* longer pending, the field is null, reconnectAttempts is at the maximum, *)
(* and a handleDisconnect that finds reconnectAttempts at the maximum sets *)
(* no timer                                                                *)
C38_DisconnectClearsLastTimer ==
  [][ /\ (ipcDisconnected' /\ ~ipcDisconnected) =>
           /\ ipcClient'.reconnectTimer = 0
           /\ ipcClient'.reconnectAttempts = maxReconnectAttempts
           /\ ipcClient.reconnectTimer # 0 =>
                ipcTimers'[ipcClient.reconnectTimer] # "pending"
      /\ (ipcClient.reconnectAttempts >= maxReconnectAttempts) =>
           Len(ipcTimers') = Len(ipcTimers)
    ]_vars

(* a timer set by an earlier disconnect was still pending when a later one *)
(* replaced it in the reconnectTimer field; disconnect() cleared the later *)
(* one and the earlier one has opened a connection                         *)
C38_StaleTimerFired ==
  /\ ipcDisconnected
  /\ Len(ipcTimers) = 2
  /\ ipcTimers[1] = "fired"
  /\ ipcTimers[2] = "cleared"
  /\ Len(ipcSockets) = 3
  /\ ipcSockets[3].by = "timer"
  /\ ipcSockets[3].afterDisconnect

(* disconnect() was called while a connect was in flight: the connection   *)
(* was established afterwards with reconnectAttempts reset to 0, and its   *)
(* loss has set a reconnect timer                                          *)
C38_ResetByConnect ==
  /\ ipcDisconnected
  /\ \E t \in DOMAIN ipcTimers : ipcTimers[t] = "pending" /\ ipcClient.reconnectTimer = t
  /\ ipcClient.reconnectAttempts = 0
  /\ ~ipcClient.connected /\ ~ipcClient.connecting

====
